---- MODULE Spec2Model ----
(***************************************************************************)
(* Model of the SecuraCV Home Assistant integration's MQTT telemetry path  *)
(* (custom_components/securacv): per-device discovery of entities and the  *)
(* message handlers of the Canary binary sensors and sensors.              *)
(***************************************************************************)
EXTENDS Integers, Sequences, FiniteSets, TLC

\* ------------------------------------------------------------------------
\* Bounds of the model
\* ------------------------------------------------------------------------

\* Number of MQTT messages delivered in one run; the clock read by
\* datetime.now() is the number of the message being handled.
MaxMessages == 3

\* eFuses of a verifier input that differ from its profile.
MaxChanged == 1

\* Health messages the health sensor handles on its own.
MaxHealthMessages == 2

\* Seconds the firmware watcher runs.
MaxElapsed == 5

\* Devices the fleet manifest holds at most.
MaxDevices == 3

\* Devices an imported manifest file holds at most.
MaxImport == 2

\* Events a payload of the events API holds at most.
MaxEvents == 2

\* Device ids seen in topics prefix/<device_id>/<topic>.
Devices == {"canary1", "canary2"}

\* ------------------------------------------------------------------------
\* const.py
\* ------------------------------------------------------------------------
TOPIC_STATUS == "status"
TOPIC_EVENTS == "events"
TOPIC_HEALTH == "health"
TOPIC_CHAIN == "chain"
TOPIC_COUNTS == "counts"
TOPIC_TAMPER == "tamper"
TOPIC_MESH == "mesh"
TOPIC_CHIRP == "chirp"
TOPIC_TRANSPORT == "transport"

TRANSPORT_WIFI_AP == "wifi_ap"
TRANSPORT_WIFI_STA == "wifi_sta"
TRANSPORT_MQTT == "mqtt"
TRANSPORT_BLE == "ble"
TRANSPORT_MESH == "mesh"
TRANSPORT_CHIRP == "chirp"

TAMPER_POWER_LOSS == "power_loss"
TAMPER_SD_REMOVE == "sd_remove"
TAMPER_SD_ERROR == "sd_error"
TAMPER_GPS_JAMMING == "gps_jamming"
TAMPER_MOTION == "motion"
TAMPER_ENCLOSURE == "enclosure"
TAMPER_GPIO == "gpio"
TAMPER_WATCHDOG == "watchdog"
TAMPER_REBOOT == "unexpected_reboot"
TAMPER_MEMORY == "memory_critical"

\* ------------------------------------------------------------------------
\* JSON values as json.loads returns them, tagged by their Python type.
\* ------------------------------------------------------------------------
JNull == [t |-> "null"]
JBool(b) == [t |-> "bool", b |-> b]
JInt(n) == [t |-> "int", n |-> n]
JStr(s) == [t |-> "str", s |-> s]
JList(items) == [t |-> "list", items |-> items]
JObj(f) == [t |-> "dict", f |-> f]
EmptyDict == JObj([k \in {} |-> JNull])

\* What json.loads raises on text that is not JSON.
JSONDecodeError == [t |-> "JSONDecodeError"]

\* bool(v)
Truthy(v) ==
    CASE v.t = "null" -> FALSE
      [] v.t = "bool" -> v.b
      [] v.t = "int" -> v.n # 0
      [] v.t = "str" -> v.s # ""
      [] v.t = "list" -> Len(v.items) > 0
      [] v.t = "dict" -> DOMAIN v.f # {}

\* a or b
PyOr(a, b) == IF Truthy(a) THEN a ELSE b

\* a and b
PyAnd(a, b) == IF Truthy(a) THEN b ELSE a

IsDict(v) == v.t = "dict"

\* d.get(k, default) on a dict d
Get(d, k, default) == IF k \in DOMAIN d.f THEN d.f[k] ELSE default

\* Operands Python orders against an int: int and bool (a bool is an int).
IsNumber(v) == v.t \in {"int", "bool"}
Num(v) == IF v.t = "bool" THEN (IF v.b THEN 1 ELSE 0) ELSE v.n

\* ------------------------------------------------------------------------
\* Payloads: the texts publishers send, and json.loads of each.
\* ------------------------------------------------------------------------
StatusPayloads == {"Connected ", "offline"}

ChainPayloads ==
    {"not json", "{}", "{\"integrity\": false}", "{\"valid\": true, \"integrity\": false}"}

HealthPayloads ==
    {"not json", "{}",
     "{\"free_heap\": 9999}", "{\"free_heap\": 10000}",
     "{\"tamper_detected\": false, \"tamper\": true}",
     "{\"tamper\": {\"gpio\": true}}",
     "{\"gps_fix_lost\": false, \"gps_jamming\": true}",
     "{\"sd_errors\": 1}"}

TamperPayloads == {"not json", "\"cut\"", "{}", "{\"type\": \"gpio\"}"}

TransportPayloads ==
    {"not json", "{}", "{\"wifi_sta\": {\"connected\": true}}", "{\"wifi_sta\": \"up\"}"}

MeshPayloads == {"not json", "{}", "{\"peer_count\": 2}"}

ChirpPayloads ==
    {"not json", "{\"enabled\": true}", "{\"enabled\": true, \"ready\": true}"}

CountsPayloads == {"not json", "05", "{\"total\": 5}"}

EventsPayloads == {"boot", "{\"event_type\": \"motion\"}"}

PayloadsOf(topic) ==
    CASE topic = TOPIC_STATUS -> StatusPayloads
      [] topic = TOPIC_CHAIN -> ChainPayloads
      [] topic = TOPIC_HEALTH -> HealthPayloads
      [] topic = TOPIC_TAMPER -> TamperPayloads
      [] topic = TOPIC_TRANSPORT -> TransportPayloads
      [] topic = TOPIC_MESH -> MeshPayloads
      [] topic = TOPIC_CHIRP -> ChirpPayloads
      [] topic = TOPIC_COUNTS -> CountsPayloads
      [] topic = TOPIC_EVENTS -> EventsPayloads

\* json.loads(msg.payload): the decoded value, or JSONDecodeError.
json_loads(p) ==
    CASE p = "\"cut\"" -> JStr("cut")
      [] p = "{}" -> EmptyDict
      [] p = "{\"integrity\": false}" -> JObj([integrity |-> JBool(FALSE)])
      [] p = "{\"valid\": true, \"integrity\": false}" ->
            JObj([valid |-> JBool(TRUE), integrity |-> JBool(FALSE)])
      [] p = "{\"free_heap\": 9999}" -> JObj([free_heap |-> JInt(9999)])
      [] p = "{\"free_heap\": 10000}" -> JObj([free_heap |-> JInt(10000)])
      [] p = "{\"tamper_detected\": false, \"tamper\": true}" ->
            JObj([tamper_detected |-> JBool(FALSE), tamper |-> JBool(TRUE)])
      [] p = "{\"tamper\": {\"gpio\": true}}" ->
            JObj([tamper |-> JObj([gpio |-> JBool(TRUE)])])
      [] p = "{\"gps_fix_lost\": false, \"gps_jamming\": true}" ->
            JObj([gps_fix_lost |-> JBool(FALSE), gps_jamming |-> JBool(TRUE)])
      [] p = "{\"sd_errors\": 1}" -> JObj([sd_errors |-> JInt(1)])
      [] p = "{\"type\": \"gpio\"}" -> JObj([type |-> JStr("gpio")])
      [] p = "{\"wifi_sta\": {\"connected\": true}}" ->
            JObj([wifi_sta |-> JObj([connected |-> JBool(TRUE)])])
      [] p = "{\"wifi_sta\": \"up\"}" -> JObj([wifi_sta |-> JStr("up")])
      [] p = "{\"peer_count\": 2}" -> JObj([peer_count |-> JInt(2)])
      [] p = "{\"enabled\": true}" -> JObj([enabled |-> JBool(TRUE)])
      [] p = "{\"enabled\": true, \"ready\": true}" ->
            JObj([enabled |-> JBool(TRUE), ready |-> JBool(TRUE)])
      [] p = "{\"total\": 5}" -> JObj([total |-> JInt(5)])
      [] p = "{\"event_type\": \"motion\"}" -> JObj([event_type |-> JStr("motion")])
      [] OTHER -> JSONDecodeError

\* str(msg.payload).lower().strip()
LowerStrip(p) == IF p = "Connected " THEN "connected" ELSE p

\* ------------------------------------------------------------------------
\* binary_sensor.py: the entities.  An entity is a record
\*   subscribed      async_added_to_hass has subscribed its handlers
\*   is_on           _attr_is_on
\*   attrs           _attr_extra_state_attributes (NoAttrs: never assigned)
\*   last_triggered  _last_triggered: 0 for None, else the clock at the time
\* A handler maps (entity, payload, now) to [e |-> entity after, exc |->
\* the exception that leaves the handler, "" for none].
\* ------------------------------------------------------------------------
NoAttrs == [none |-> TRUE]
NoTime == 0

NewBinaryEntity(on) ==
    [subscribed |-> FALSE, is_on |-> JBool(on), attrs |-> NoAttrs, last_triggered |-> NoTime]

Ok(e) == [e |-> e, exc |-> ""]
Raise(e, x) == [e |-> e, exc |-> x]

\* SecuraCVCanaryOnlineSensor._handle_message
Online_handle_message(e, p, now) ==
    Ok([e EXCEPT !.is_on = JBool(LowerStrip(p) \in {"online", "1", "true", "connected"})])

\* A chain handler that reads a message json.loads rejects as "invalid".
ChainValid_handle_message_FailClosed(e, p, now) ==
    Ok([e EXCEPT !.is_on = JBool(json_loads(p) # JSONDecodeError)])

\* SecuraCVCanaryChainValidSensor._handle_message
ChainValid_handle_message(e, p, now) ==
    LET data == json_loads(p) IN
    IF data = JSONDecodeError THEN Ok(e)
    ELSE IF ~IsDict(data) THEN Raise(e, "AttributeError")
    ELSE LET valid == Get(data, "valid", Get(data, "integrity", JBool(TRUE))) IN
         Ok([e EXCEPT !.is_on = JBool(Truthy(valid)),
                      !.attrs = [chain_length |-> Get(data, "length", JInt(0)),
                                 latest_hash |-> Get(data, "latest_hash", JStr("")),
                                 verification_error |-> Get(data, "error", JNull)]])

\* SecuraCVCanaryTamperSensor._handle_message (health topic)
Tamper_handle_message(e, p, now) ==
    LET data == json_loads(p) IN
    IF data = JSONDecodeError THEN Ok(e)
    ELSE IF ~IsDict(data) THEN Raise(e, "AttributeError")
    ELSE LET tamper == Get(data, "tamper_detected", Get(data, "tamper", JBool(FALSE))) IN
         Ok([e EXCEPT !.is_on = JBool(Truthy(tamper))])

\* SecuraCVCanaryTamperSensor._handle_tamper_message (tamper topic)
Tamper_handle_tamper_message(e, p, now) ==
    LET data == json_loads(p)
        on == [e EXCEPT !.is_on = JBool(TRUE)]
    IN
    IF data = JSONDecodeError THEN Ok(on)
    ELSE IF ~IsDict(data) THEN Raise(on, "AttributeError")
    ELSE Ok([on EXCEPT !.attrs = [tamper_type |-> Get(data, "type", JStr("unknown")),
                                  timestamp |-> Get(data, "timestamp", JStr("")),
                                  detail |-> Get(data, "detail", JStr(""))]])

\* SecuraCVCanaryTamperTypeSensor._handle_tamper_message
TamperType_handle_tamper_message(tamper_type, e, p, now) ==
    LET data == json_loads(p) IN
    IF data = JSONDecodeError THEN Ok(e)
    ELSE IF ~IsDict(data) THEN Raise(e, "AttributeError")
    ELSE IF \/ Get(data, "type", JNull) = JStr(tamper_type)
            \/ Truthy(Get(data, tamper_type, JNull))
         THEN Ok([e EXCEPT !.is_on = JBool(TRUE),
                           !.last_triggered = now,
                           !.attrs = [last_triggered |-> now,
                                      detail |-> Get(data, "detail", JStr("")),
                                      severity |-> Get(data, "severity", JStr("tamper"))]])
         ELSE Ok(e)

\* The threshold with its boundary value included.
MemoryCritical_Inclusive(free_heap) == Num(free_heap) <= 10000

\* free_heap < 10000  # Critical if < 10KB
MemoryCritical(free_heap) == Num(free_heap) < 10000

\* The "is_triggered = ..." chain of _handle_health_message: the value
\* assigned, or the exception its evaluation raises.
IsTriggered(tamper_type, data, tamper_data) ==
    LET val(v) == [v |-> v, exc |-> ""]
        err(x) == [v |-> JNull, exc |-> x]
        nested(key, flat) ==
            IF ~IsDict(tamper_data) THEN err("AttributeError")
            ELSE val(PyOr(Get(tamper_data, key, JBool(FALSE)), Get(data, flat, JBool(FALSE))))
    IN
    CASE tamper_type = TAMPER_SD_REMOVE ->
            val(JBool(~Truthy(Get(data, "sd_mounted", JBool(TRUE)))))
      [] tamper_type = TAMPER_SD_ERROR ->
            LET n == Get(data, "sd_errors", JInt(0)) IN
            IF IsNumber(n) THEN val(JBool(Num(n) > 0)) ELSE err("TypeError")
      [] tamper_type = TAMPER_GPS_JAMMING ->
            val(PyOr(Get(data, "gps_fix_lost", JBool(FALSE)), Get(data, "gps_jamming", JBool(FALSE))))
      [] tamper_type = TAMPER_MOTION -> nested("motion", "unexpected_motion")
      [] tamper_type = TAMPER_MEMORY ->
            LET free_heap == Get(data, "free_heap", JInt(100000)) IN
            IF IsNumber(free_heap) THEN val(JBool(MemoryCritical(free_heap))) ELSE err("TypeError")
      [] tamper_type = TAMPER_WATCHDOG -> val(Get(data, "watchdog_triggered", JBool(FALSE)))
      [] tamper_type = TAMPER_GPIO -> nested("gpio", "tamper_gpio")
      [] tamper_type = TAMPER_REBOOT -> val(Get(data, "unexpected_reboot", JBool(FALSE)))
      [] tamper_type = TAMPER_POWER_LOSS -> val(Get(data, "power_loss_detected", JBool(FALSE)))
      [] tamper_type = TAMPER_ENCLOSURE -> nested("enclosure", "enclosure_open")
      [] OTHER ->
            IF tamper_data.t \notin {"dict", "list", "str"} THEN err("TypeError")
            ELSE IF IsDict(tamper_data) /\ tamper_type \in DOMAIN tamper_data.f
                 THEN val(JBool(Truthy(tamper_data.f[tamper_type])))
                 ELSE val(JBool(FALSE))

\* SecuraCVCanaryTamperTypeSensor._handle_health_message
TamperType_handle_health_message(tamper_type, e, p, now) ==
    LET data == json_loads(p) IN
    IF data = JSONDecodeError THEN Ok(e)
    ELSE IF ~IsDict(data) THEN Raise(e, "AttributeError")
    ELSE LET tamper_data == Get(data, "tamper", EmptyDict)
             r == IsTriggered(tamper_type, data, tamper_data)
             is_triggered == r.v
             last == IF Truthy(is_triggered) /\ ~Truthy(e.is_on) THEN now ELSE e.last_triggered
         IN
         IF r.exc = "TypeError" THEN Ok(e)
         ELSE IF r.exc # "" THEN Raise(e, r.exc)
         ELSE Ok([e EXCEPT !.last_triggered = last,
                           !.is_on = is_triggered,
                           !.attrs = [last_triggered |-> last]])

\* len(v) for the values the samples hold; None, int and bool have no len().
HasLen(v) == v.t \in {"list", "dict"}
PyLen(v) == IF v.t = "list" THEN Len(v.items) ELSE Cardinality(DOMAIN v.f)

\* SecuraCVCanaryTransportSensor._handle_message
Transport_handle_message(transport_type, e, p, now) ==
    LET data == json_loads(p) IN
    IF data = JSONDecodeError THEN Ok(e)
    ELSE IF ~IsDict(data) THEN Raise(e, "AttributeError")
    ELSE LET transport_data == Get(data, transport_type, EmptyDict) IN
         IF IsDict(transport_data)
         THEN Ok([e EXCEPT !.is_on = Get(transport_data, "connected", JBool(FALSE)),
                           !.attrs = [rssi |-> Get(transport_data, "rssi", JNull),
                                      message_count |-> Get(transport_data, "messages", JInt(0)),
                                      error_count |-> Get(transport_data, "errors", JInt(0)),
                                      last_activity |-> Get(transport_data, "last_activity", JNull)]])
         ELSE IF transport_data.t = "bool" THEN Ok([e EXCEPT !.is_on = transport_data])
         ELSE Ok(e)

\* SecuraCVCanaryMeshConnectedSensor._handle_message
Mesh_handle_message(e, p, now) ==
    LET data == json_loads(p) IN
    IF data = JSONDecodeError THEN Ok(e)
    ELSE IF ~IsDict(data) THEN Raise(e, "AttributeError")
    ELSE LET peers == Get(data, "peers", JList(<<>>)) IN
         IF ~HasLen(peers) THEN Ok(e)
         ELSE LET peer_count == Get(data, "peer_count", JInt(PyLen(peers))) IN
              IF ~IsNumber(peer_count) THEN Ok(e)
              ELSE Ok([e EXCEPT !.is_on = JBool(Num(peer_count) > 0),
                                !.attrs = [peer_count |-> peer_count,
                                           peers |-> peers,
                                           messages_sent |-> Get(data, "sent", JInt(0)),
                                           messages_received |-> Get(data, "received", JInt(0)),
                                           relay_count |-> Get(data, "relayed", JInt(0))]])

\* SecuraCVCanaryChirpActiveSensor._handle_message
Chirp_handle_message(e, p, now) ==
    LET data == json_loads(p) IN
    IF data = JSONDecodeError THEN Ok(e)
    ELSE IF ~IsDict(data) THEN Raise(e, "AttributeError")
    ELSE Ok([e EXCEPT !.is_on = PyAnd(Get(data, "enabled", JBool(FALSE)),
                                      Get(data, "ready", JBool(FALSE))),
                      !.attrs = [session_emoji |-> Get(data, "session_id", JStr("")),
                                 cooldown_tier |-> Get(data, "cooldown_tier", JInt(0)),
                                 presence_minutes |-> Get(data, "presence_minutes", JInt(0)),
                                 can_broadcast |-> Get(data, "can_broadcast", JBool(FALSE)),
                                 alerts_sent |-> Get(data, "sent", JInt(0)),
                                 alerts_received |-> Get(data, "received", JInt(0)),
                                 confirmations_given |-> Get(data, "confirmed", JInt(0))]])

\* ------------------------------------------------------------------------
\* sensor.py: the entities.  A sensor is a record
\*   subscribed, native_value (_attr_native_value, JNull for None), attrs
\* ------------------------------------------------------------------------
NewSensorEntity == [subscribed |-> FALSE, native_value |-> JNull, attrs |-> NoAttrs]

\* int(msg.payload) for a payload json.loads rejected: the int, or ValueError
ValueError == [t |-> "ValueError"]
PyInt(p) == IF p = "05" THEN JInt(5) ELSE ValueError

\* SecuraCVCanaryWitnessCountSensor._handle_message
WitnessCount_handle_message(e, p, now) ==
    LET data == json_loads(p) IN
    IF data = JSONDecodeError
    THEN IF PyInt(p) = ValueError THEN Ok(e) ELSE Ok([e EXCEPT !.native_value = PyInt(p)])
    ELSE IF ~IsDict(data) THEN Raise(e, "AttributeError")
    ELSE Ok([e EXCEPT !.native_value = Get(data, "total", Get(data, "count", JInt(0)))])

\* SecuraCVCanaryChainLengthSensor._handle_message
ChainLength_handle_message(e, p, now) ==
    LET data == json_loads(p) IN
    IF data = JSONDecodeError THEN Ok(e)
    ELSE IF ~IsDict(data) THEN Raise(e, "AttributeError")
    ELSE Ok([e EXCEPT !.native_value = Get(data, "length", Get(data, "chain_length", JInt(0))),
                      !.attrs = [latest_hash |-> Get(data, "latest_hash", JStr("")),
                                 algorithm |-> Get(data, "algorithm", JStr("ed25519"))]])

\* SecuraCVCanaryLastEventSensor._handle_message
LastEvent_handle_message(e, p, now) ==
    LET data == json_loads(p) IN
    IF data = JSONDecodeError THEN Ok([e EXCEPT !.native_value = JStr(p)])
    ELSE IF ~IsDict(data) THEN Raise(e, "AttributeError")
    ELSE Ok([e EXCEPT !.native_value = Get(data, "event_type", Get(data, "type", JStr("unknown"))),
                      !.attrs = [timestamp |-> Get(data, "timestamp", JStr("")),
                                 zone |-> Get(data, "zone", JStr("")),
                                 confidence |-> Get(data, "confidence", JStr("")),
                                 signed |-> Get(data, "signed", JBool(FALSE))]])

\* A classification whose battery threshold for critical includes 10.
HealthStatus_Inclusive(battery, memory_free) ==
    IF ~IsNumber(battery) THEN "TypeError"
    ELSE IF Num(battery) <= 10 THEN "critical"
    ELSE IF ~IsNumber(memory_free) THEN "TypeError"
    ELSE IF Num(memory_free) < 1024 THEN "critical"
    ELSE IF Num(battery) < 25 THEN "warning"
    ELSE "healthy"

\* The status SecuraCVCanaryHealthSensor._handle_message derives, or TypeError
HealthStatus(battery, memory_free) ==
    IF ~IsNumber(battery) THEN "TypeError"
    ELSE IF Num(battery) < 10 THEN "critical"
    ELSE IF ~IsNumber(memory_free) THEN "TypeError"
    ELSE IF Num(memory_free) < 1024 THEN "critical"
    ELSE IF Num(battery) < 25 THEN "warning"
    ELSE "healthy"

\* SecuraCVCanaryHealthSensor._handle_message, data being what
\* json.loads(msg.payload) returns or raises.
Health_handle_data(e, data) ==
    IF data = JSONDecodeError THEN Ok([e EXCEPT !.native_value = JStr("unknown")])
    ELSE IF ~IsDict(data) THEN Raise(e, "AttributeError")
    ELSE LET battery == Get(data, "battery", JInt(100))
             memory_free == Get(data, "memory_free", JInt(0))
             status == HealthStatus(battery, memory_free)
         IN
         IF status = "TypeError" THEN Ok([e EXCEPT !.native_value = JStr("unknown")])
         ELSE Ok([e EXCEPT !.native_value = JStr(status),
                           !.attrs = [battery_percent |-> battery,
                                      memory_free_bytes |-> memory_free,
                                      uptime_seconds |-> Get(data, "uptime", JInt(0)),
                                      firmware_version |-> Get(data, "firmware_version", JStr("")),
                                      public_key |-> Get(data, "public_key", JStr(""))]])

\* SecuraCVCanaryHealthSensor._handle_message
Health_handle_message(e, p, now) == Health_handle_data(e, json_loads(p))

\* str(v) of a truthy value that is no dict
PyStr(v) ==
    CASE v.t = "str" -> v
      [] v.t = "bool" -> JStr("True")
      [] v.t = "int" /\ v.n = 5 -> JStr("5")
      [] v.t = "int" /\ v.n = 1 -> JStr("1")
      [] OTHER -> JStr("[...]")

\* SecuraCVCanaryGPSSensor._handle_message
GPS_handle_message(e, p, now) ==
    LET data == json_loads(p) IN
    IF data = JSONDecodeError THEN Ok(e)
    ELSE IF ~IsDict(data) THEN Raise(e, "AttributeError")
    ELSE LET gps == Get(data, "gps", EmptyDict) IN
         IF IsDict(gps)
         THEN Ok([e EXCEPT !.native_value = Get(gps, "fix_type", JStr("no_fix")),
                           !.attrs = [satellites |-> Get(gps, "satellites", JInt(0)),
                                      hdop |-> Get(gps, "hdop", JInt(0)),
                                      latitude |-> Get(gps, "latitude", JStr("")),
                                      longitude |-> Get(gps, "longitude", JStr(""))]])
         ELSE Ok([e EXCEPT !.native_value = IF Truthy(gps) THEN PyStr(gps) ELSE JStr("no_fix")])

\* ------------------------------------------------------------------------
\* Discovery (binary_sensor.py and sensor.py) and the device registry
\* callback (__init__.py)
\* ------------------------------------------------------------------------
TamperTypes ==
    {TAMPER_POWER_LOSS, TAMPER_SD_REMOVE, TAMPER_SD_ERROR, TAMPER_GPS_JAMMING, TAMPER_MOTION,
     TAMPER_ENCLOSURE, TAMPER_GPIO, TAMPER_WATCHDOG, TAMPER_REBOOT, TAMPER_MEMORY}

TransportTypes ==
    {TRANSPORT_WIFI_AP, TRANSPORT_WIFI_STA, TRANSPORT_MQTT, TRANSPORT_BLE, TRANSPORT_MESH,
     TRANSPORT_CHIRP}

\* Topics the two discovery callbacks are subscribed to (prefix/+/<topic>).
BinaryTopics ==
    {TOPIC_STATUS, TOPIC_CHAIN, TOPIC_HEALTH, TOPIC_TAMPER, TOPIC_TRANSPORT, TOPIC_MESH, TOPIC_CHIRP}
SensorTopics == {TOPIC_COUNTS, TOPIC_CHAIN, TOPIC_EVENTS, TOPIC_HEALTH}
Topics == BinaryTopics \cup SensorTopics

\* The topics each device publishes on: canary1 on all of them, canary2 (the
\* other device of the two-device cases) on status, health and tamper.
TopicsOf(device_id) ==
    IF device_id = "canary1" THEN Topics ELSE {TOPIC_STATUS, TOPIC_HEALTH, TOPIC_TAMPER}

\* The key _async_discover_binary_sensors tests and adds for a topic.
BinaryKey(topic) ==
    CASE topic = TOPIC_STATUS -> "online"
      [] topic = TOPIC_CHAIN -> "chain_valid"
      [] topic = TOPIC_HEALTH -> "tamper"
      [] topic = TOPIC_TAMPER -> "tamper_sensors"
      [] topic = TOPIC_TRANSPORT -> "transport_sensors"
      [] topic = TOPIC_MESH -> "mesh_connected"
      [] topic = TOPIC_CHIRP -> "chirp_active"

BinaryKeys == {BinaryKey(t) : t \in BinaryTopics}

\* The entities created under a key, each <<class, subtype>>.
BinaryEntitiesOf(key) ==
    CASE key = "online" -> {<<"online", "">>}
      [] key = "chain_valid" -> {<<"chain_valid", "">>}
      [] key = "tamper" -> {<<"tamper", "">>}
      [] key = "tamper_sensors" -> {<<"tamper_type", t>> : t \in TamperTypes}
      [] key = "transport_sensors" -> {<<"transport", t>> : t \in TransportTypes}
      [] key = "mesh_connected" -> {<<"mesh_connected", "">>}
      [] key = "chirp_active" -> {<<"chirp_active", "">>}

\* Every binary sensor created "off", the chain-valid sensor included.
BinaryInitial_AllOff(id) == NewBinaryEntity(FALSE)

\* __init__ of each class: the initial _attr_is_on.
BinaryInitial(id) == NewBinaryEntity(id[1] = "chain_valid")

\* The topics async_added_to_hass of each class subscribes to.
BinarySubscriptions(id) ==
    CASE id[1] = "online" -> {TOPIC_STATUS}
      [] id[1] = "chain_valid" -> {TOPIC_CHAIN}
      [] id[1] = "tamper" -> {TOPIC_HEALTH, TOPIC_TAMPER}
      [] id[1] = "tamper_type" -> {TOPIC_TAMPER, TOPIC_HEALTH}
      [] id[1] = "transport" -> {TOPIC_TRANSPORT}
      [] id[1] = "mesh_connected" -> {TOPIC_MESH}
      [] id[1] = "chirp_active" -> {TOPIC_CHIRP}

\* The handler the entity subscribed for the topic.
BinaryHandle(id, topic, e, p, now) ==
    CASE id[1] = "online" -> Online_handle_message(e, p, now)
      [] id[1] = "chain_valid" -> ChainValid_handle_message(e, p, now)
      [] id[1] = "tamper" /\ topic = TOPIC_HEALTH -> Tamper_handle_message(e, p, now)
      [] id[1] = "tamper" /\ topic = TOPIC_TAMPER -> Tamper_handle_tamper_message(e, p, now)
      [] id[1] = "tamper_type" /\ topic = TOPIC_TAMPER ->
            TamperType_handle_tamper_message(id[2], e, p, now)
      [] id[1] = "tamper_type" /\ topic = TOPIC_HEALTH ->
            TamperType_handle_health_message(id[2], e, p, now)
      [] id[1] = "transport" -> Transport_handle_message(id[2], e, p, now)
      [] id[1] = "mesh_connected" -> Mesh_handle_message(e, p, now)
      [] id[1] = "chirp_active" -> Chirp_handle_message(e, p, now)

SensorKey(topic) ==
    CASE topic = TOPIC_COUNTS -> "counts"
      [] topic = TOPIC_CHAIN -> "chain"
      [] topic = TOPIC_EVENTS -> "events"
      [] topic = TOPIC_HEALTH -> "health"

SensorKeys == {SensorKey(t) : t \in SensorTopics}

SensorEntitiesOf(key) ==
    CASE key = "counts" -> {<<"witness_count", "">>}
      [] key = "chain" -> {<<"chain_length", "">>}
      [] key = "events" -> {<<"last_event", "">>}
      [] key = "health" -> {<<"health_status", "">>, <<"gps_fix", "">>}

SensorSubscriptions(id) ==
    CASE id[1] = "witness_count" -> {TOPIC_COUNTS}
      [] id[1] = "chain_length" -> {TOPIC_CHAIN}
      [] id[1] = "last_event" -> {TOPIC_EVENTS}
      [] id[1] = "health_status" -> {TOPIC_HEALTH}
      [] id[1] = "gps_fix" -> {TOPIC_HEALTH}

SensorHandle(id, topic, e, p, now) ==
    CASE id[1] = "witness_count" -> WitnessCount_handle_message(e, p, now)
      [] id[1] = "chain_length" -> ChainLength_handle_message(e, p, now)
      [] id[1] = "last_event" -> LastEvent_handle_message(e, p, now)
      [] id[1] = "health_status" -> Health_handle_message(e, p, now)
      [] id[1] = "gps_fix" -> GPS_handle_message(e, p, now)

\* A registry that tests the device alone, not the key.
FirstSighting_PerDevice(registry, device_id, key) == device_id \notin DOMAIN registry

\* A registry that never recognises a key.
FirstSighting_Always(registry, device_id, key) == TRUE

\* The test "key not in entities_added[device_id]" of both discovery
\* callbacks, after "if device_id not in entities_added: ... = set()".
FirstSighting(registry, device_id, key) ==
    device_id \notin DOMAIN registry \/ key \notin registry[device_id]

\* A callback that creates the device's set and never adds the key to it.
Register_Forgets(registry, device_id, key) ==
    [d \in DOMAIN registry \cup {device_id} |->
        IF d \in DOMAIN registry THEN registry[d] ELSE {}]

\* A callback that starts the device's set anew on every registration.
Register_Resets(registry, device_id, key) ==
    [d \in DOMAIN registry \cup {device_id} |->
        IF d = device_id THEN {key} ELSE registry[d]]

\* entities_added after a discovery callback ran for (device_id, key).
Register(registry, device_id, key) ==
    [d \in DOMAIN registry \cup {device_id} |->
        IF d = device_id
        THEN (IF d \in DOMAIN registry THEN registry[d] ELSE {}) \cup {key}
        ELSE registry[d]]

\* ------------------------------------------------------------------------
\* firmware/provisioning/verify_device.py: the eFuse rule table and
\* verify_efuses.
\* ------------------------------------------------------------------------

\* A rule's expectation that is a lambda: callable(expected).
Validator(name) == [t |-> "callable", name |-> name]
callable(expected) == expected.t = "callable"

\* A rule table whose lockdown leaves SECURE_BOOT_EN at its virgin value.
SECURITY_EFUSES_Unlocked ==
    << [efuse |-> "SECURE_BOOT_EN", virgin |-> JInt(0), locked |-> JInt(0)],
       [efuse |-> "JTAG_SEL_ENABLE", virgin |-> JInt(0), locked |-> JInt(0)] >>

\* SECURITY_EFUSES, in the order of the dict.
SECURITY_EFUSES ==
    << [efuse |-> "SECURE_BOOT_EN", virgin |-> JInt(0), locked |-> JInt(1)],
       [efuse |-> "SECURE_BOOT_AGGRESSIVE_REVOKE", virgin |-> JInt(0), locked |-> JInt(1)],
       [efuse |-> "SPI_BOOT_CRYPT_CNT", virgin |-> JInt(0), locked |-> Validator("odd")],
       [efuse |-> "DIS_DOWNLOAD_MODE", virgin |-> JInt(0), locked |-> JInt(1)],
       [efuse |-> "JTAG_SEL_ENABLE", virgin |-> JInt(0), locked |-> JInt(0)],
       [efuse |-> "SOFT_DIS_JTAG", virgin |-> JInt(0), locked |-> JInt(7)],
       [efuse |-> "DIS_PAD_JTAG", virgin |-> JInt(0), locked |-> JInt(1)],
       [efuse |-> "DIS_USB_JTAG", virgin |-> JInt(0), locked |-> JInt(1)],
       [efuse |-> "DIS_DOWNLOAD_MANUAL_ENCRYPT", virgin |-> JInt(0), locked |-> JInt(1)],
       [efuse |-> "SECURE_VERSION", virgin |-> JInt(0), locked |-> Validator("nonnegative")] >>

EfuseNames == {SECURITY_EFUSES[i].efuse : i \in DOMAIN SECURITY_EFUSES}

\* a == b: an int and a bool compare by number, other types by value.
PyEq(a, b) ==
    IF IsNumber(a) /\ IsNumber(b) THEN Num(a) = Num(b)
    ELSE a.t = b.t /\ a = b

\* expected(actual) for the two lambdas of the table: the bool returned, or
\* the exception raised.
ApplyValidator(expected, actual) ==
    CASE expected.name = "odd" ->
            [v |-> \E k \in {1, 3, 5, 7} : PyEq(actual, JInt(k)), exc |-> ""]
      [] expected.name = "nonnegative" ->
            IF IsNumber(actual) THEN [v |-> Num(actual) >= 0, exc |-> ""]
            ELSE [v |-> FALSE, exc |-> "TypeError"]

NOT_FOUND == JStr("NOT_FOUND")

\* spec["virgin"], spec["locked"], or None for any other mode.
ExpectedOf(spec, expect_mode) ==
    CASE expect_mode = "virgin" -> spec.virgin
      [] expect_mode = "locked" -> spec.locked
      [] OTHER -> JNull

\* A verifier that lets an eFuse it cannot find pass.
MissingCheck_Passing(spec) ==
    [efuse |-> spec.efuse, expected |-> JNull, actual |-> JNull, passed |-> TRUE]

\* The check of an eFuse that is not in efuse_data.
MissingCheck(spec) ==
    [efuse |-> spec.efuse, expected |-> JNull, actual |-> NOT_FOUND, passed |-> FALSE]

\* One turn of the loop of verify_efuses: the check appended, and the
\* exception that leaves the loop ("" for none).
CheckOf(spec, efuse_data, expect_mode) ==
    IF spec.efuse \notin DOMAIN efuse_data
    THEN [check |-> MissingCheck(spec), exc |-> ""]
    ELSE LET raw == efuse_data[spec.efuse]
             actual == IF IsDict(raw) THEN Get(raw, "value", raw) ELSE raw
             expected == ExpectedOf(spec, expect_mode)
             r == IF callable(expected) THEN ApplyValidator(expected, actual)
                  ELSE [v |-> PyEq(actual, expected), exc |-> ""]
         IN [check |-> [efuse |-> spec.efuse,
                        expected |-> IF callable(expected) THEN JStr("<validator>") ELSE expected,
                        actual |-> actual,
                        passed |-> r.v],
             exc |-> r.exc]

\* What a call returns: a report, or the exception it raises.
Raised(exc) == [t |-> "raised", exc |-> exc]
NotRun == [t |-> "not_run"]

\* A verifier whose verdict is the outcome of the check made last.
Passed_Last(passed, check) == check.passed

\* results["passed"] after a check: if not check["passed"] it becomes False.
Passed(passed, check) == IF ~check.passed THEN FALSE ELSE passed

\* The loop of verify_efuses from rule i on, results being what the earlier
\* turns left.
RECURSIVE verify_efuses_loop(_, _, _, _)
verify_efuses_loop(i, results, efuse_data, expect_mode) ==
    IF i > Len(SECURITY_EFUSES) THEN results
    ELSE LET turn == CheckOf(SECURITY_EFUSES[i], efuse_data, expect_mode) IN
         IF turn.exc # "" THEN Raised(turn.exc)
         ELSE verify_efuses_loop(i + 1,
                                 [results EXCEPT !.passed = Passed(@, turn.check),
                                                 !.checks = Append(@, turn.check)],
                                 efuse_data, expect_mode)

\* verify_efuses(efuse_data, expect_mode)
verify_efuses(efuse_data, expect_mode) ==
    verify_efuses_loop(1, [t |-> "report", mode |-> expect_mode, passed |-> TRUE, checks |-> <<>>],
                       efuse_data, expect_mode)

\* ------------------------------------------------------------------------
\* firmware/provisioning/securacv-provisioning/scripts/verify_device.py:
\* read_efuse_state, verify_virgin, verify_post_provision and the summary
\* of main. The espefuse summary is the map from an eFuse name to the text
\* find_efuse_value extracts for it, "" when no pattern matches.
\* ------------------------------------------------------------------------

\* int_fields and str_fields of read_efuse_state, by eFuse name.
int_fields ==
    {"SECURE_BOOT_EN", "SPI_BOOT_CRYPT_CNT", "DIS_DOWNLOAD_MANUAL_ENCRYPT", "DIS_PAD_JTAG",
     "DIS_USB_JTAG", "DIS_USB_SERIAL_JTAG", "SOFT_DIS_JTAG", "ENABLE_SECURITY_DOWNLOAD",
     "DIS_DOWNLOAD_MODE", "DIS_DIRECT_BOOT", "DIS_USB_DEVICE", "JTAG_SEL_ENABLE",
     "SECURE_BOOT_KEY_REVOKE0", "SECURE_BOOT_KEY_REVOKE1", "SECURE_BOOT_KEY_REVOKE2"}

KeyPurposeName(i) ==
    CASE i = 0 -> "KEY_PURPOSE_0" [] i = 1 -> "KEY_PURPOSE_1" [] i = 2 -> "KEY_PURPOSE_2"
      [] i = 3 -> "KEY_PURPOSE_3" [] i = 4 -> "KEY_PURPOSE_4" [] i = 5 -> "KEY_PURPOSE_5"

KeySlots == 0..5
str_fields == {KeyPurposeName(i) : i \in KeySlots}

\* The texts an int eFuse and a key purpose are given in the summaries.
IntTexts == {"", "0", "1", "7", "0x7", "False"}
PurposeTexts == {"", "USER", "XTS_AES_128_KEY", "SECURE_BOOT_DIGEST0"}

\* parse_int(val)
parse_int(val) ==
    CASE val = "" -> -1
      [] val = "0" -> 0
      [] val = "1" -> 1
      [] val = "7" -> 7
      [] val = "0x7" -> 7
      [] OTHER -> -1

\* read_efuse_state: the EfuseState of a summary.
read_efuse_state(full_output) ==
    [n \in int_fields \cup str_fields |->
        IF n \in int_fields THEN JInt(parse_int(full_output[n]))
        ELSE JStr(IF full_output[n] # "" THEN full_output[n] ELSE "USER/EMPTY")]

\* read_device_identity: the identities of the samples, a chip esptool
\* describes and one it does not.
DeviceIdentities ==
    {[chip_model |-> "ESP32-S3", mac_address |-> "34:85:18:aa:bb:cc"],
     [chip_model |-> "", mac_address |-> ""]}

\* "ESP32-S3" in dev.chip_model
IsEsp32S3(chip_model) == chip_model = "ESP32-S3"

\* len(dev.mac_address) == 17
HasMacLength(mac_address) == mac_address = "34:85:18:aa:bb:cc"

\* A verifier that takes every key but a secure-boot key for unassigned.
IsEmptyPurpose_NotDigest(purpose) == purpose # "SECURE_BOOT_DIGEST0"

\* purpose in ("", "USER", "USER/EMPTY", "0")
IsEmptyPurpose(purpose) == purpose \in {"", "USER", "USER/EMPTY", "0"}

\* any(p in efuse.key_purpose_0 for p in fe_purposes)
IsFlashEncryptionPurpose(purpose) == purpose \in {"XTS_AES_128_KEY"}

\* "SECURE_BOOT_DIGEST" in purpose
IsSecureBootDigest(purpose) == purpose \in {"SECURE_BOOT_DIGEST0"}

\* check(results, name, passed, detail): the record appended; subject is the
\* field the detail text reports.
Check(name, subject, passed) == [name |-> name, subject |-> subject, passed |-> passed]

\* The checks on int eFuses, as <<name, eFuse, value wanted>>, in order.
VirginIntChecksBefore ==
    << <<"Secure Boot NOT enabled", "SECURE_BOOT_EN", 0>>,
       <<"Flash Encryption NOT enabled", "SPI_BOOT_CRYPT_CNT", 0>>,
       <<"Manual encrypt download NOT disabled", "DIS_DOWNLOAD_MANUAL_ENCRYPT", 0>>,
       <<"Pad JTAG NOT disabled", "DIS_PAD_JTAG", 0>>,
       <<"USB JTAG NOT disabled", "DIS_USB_JTAG", 0>>,
       <<"USB Serial JTAG NOT disabled", "DIS_USB_SERIAL_JTAG", 0>> >>

VirginIntChecksAfter ==
    << <<"Security download NOT enabled yet", "ENABLE_SECURITY_DOWNLOAD", 0>>,
       <<"Download mode NOT disabled", "DIS_DOWNLOAD_MODE", 0>> >>

PostProvisionIntChecks ==
    << <<"Secure Boot ENABLED", "SECURE_BOOT_EN", 1>>,
       <<"Flash Encryption ENABLED (release)", "SPI_BOOT_CRYPT_CNT", 7>>,
       <<"Manual encrypt download DISABLED", "DIS_DOWNLOAD_MANUAL_ENCRYPT", 1>>,
       <<"Pad JTAG DISABLED", "DIS_PAD_JTAG", 1>>,
       <<"USB JTAG DISABLED", "DIS_USB_JTAG", 1>> >>

IntChecks(table, efuse) ==
    [i \in DOMAIN table |-> Check(table[i][1], table[i][2], efuse[table[i][2]].n = table[i][3])]

\* verify_virgin(dev, efuse)
verify_virgin(dev, efuse) ==
    << Check("Chip is ESP32-S3", "chip_model", IsEsp32S3(dev.chip_model)),
       Check("MAC address present", "mac_address", HasMacLength(dev.mac_address)) >>
        \o IntChecks(VirginIntChecksBefore, efuse)
        \o [i \in 1..6 |->
               Check("KEY_PURPOSE unassigned", KeyPurposeName(i - 1),
                     IsEmptyPurpose(efuse[KeyPurposeName(i - 1)].s))]
        \o IntChecks(VirginIntChecksAfter, efuse)

\* The slots whose purpose holds SECURE_BOOT_DIGEST, in order.
RECURSIVE DigestChecks(_, _)
DigestChecks(efuse, i) ==
    IF i > 5 THEN <<>>
    ELSE (IF IsSecureBootDigest(efuse[KeyPurposeName(i)].s)
          THEN << Check("KEY_PURPOSE = Secure Boot Digest", KeyPurposeName(i), TRUE) >>
          ELSE <<>>) \o DigestChecks(efuse, i + 1)

\* verify_post_provision(dev, efuse)
verify_post_provision(dev, efuse) ==
    LET sb == DigestChecks(efuse, 0) IN
    << Check("Chip is ESP32-S3", "chip_model", IsEsp32S3(dev.chip_model)) >>
        \o IntChecks(PostProvisionIntChecks, efuse)
        \o << Check("KEY_PURPOSE_0 = Flash Encryption", "KEY_PURPOSE_0",
                    IsFlashEncryptionPurpose(efuse["KEY_PURPOSE_0"].s)) >>
        \o (IF sb # <<>> THEN sb
            ELSE << Check("Secure Boot Digest in key blocks", "key_purposes", FALSE) >>)
        \o << Check("Security download ENABLED", "ENABLE_SECURITY_DOWNLOAD",
                    efuse["ENABLE_SECURITY_DOWNLOAD"].n = 1) >>

\* main: the checks of the mode and result.overall_pass = (passed == total).
RunChecks(post_provision, dev, efuse) ==
    LET checks == IF post_provision THEN verify_post_provision(dev, efuse)
                  ELSE verify_virgin(dev, efuse)
    IN [t |-> "report",
        mode |-> IF post_provision THEN "post_provision" ELSE "virgin",
        checks |-> checks,
        overall_pass |-> Cardinality({i \in DOMAIN checks : checks[i].passed}) = Len(checks)]

\* get_efuse_summary returned None; no --expect-virgin or --expect-locked.
NoData == [t |-> "none"]
NoMode == ""

\* The modes main of verify_device.py can give generate_report.
CliModes == {NoMode, "virgin", "locked"}

\* generate_report: report["status"].
ReportStatus(efuse_data, expect_mode, verification) ==
    IF efuse_data = NoData THEN "error"
    ELSE IF expect_mode # NoMode
         THEN (IF verification.passed THEN "pass" ELSE "fail")
         ELSE "info"

\* main of verify_device.py: the exit code of a report status.
ExitCode(status) ==
    CASE status = "fail" -> 1
      [] status = "error" -> 2
      [] OTHER -> 0

\* The status the interpreter exits with on an exception nothing catches.
UncaughtExit == 1

\* The status a run of main ended with.
Exited(code) == [t |-> "exit", code |-> code]

\* ------------------------------------------------------------------------
\* State
\* ------------------------------------------------------------------------
VARIABLES
    clock,                  \* messages delivered so far; datetime.now() of the next is clock + 1
    entities_added,         \* binary_sensor.py: device_id -> set of keys
    sensor_entities_added,  \* sensor.py: device_id -> set of keys
    devices,                \* __init__.py: entry_data["devices"], device_id -> {"status": payload}
    binary_sensors,         \* <<device_id, class, subtype>> -> binary sensor entity
    sensors,                \* <<device_id, class, subtype>> -> sensor entity
    created,                \* <<registry, device_id, key>> -> times its monitors were created
                            \* (no entry: never)
    raised,                 \* <<platform, entity, exception>> of the handlers that raised
                            \* on the message delivered last
    efuse_summary,          \* verify_device.py: the efuse_data given to verify_efuses
    expect_mode,            \* verify_device.py: the mode given to verify_efuses
    verification,           \* verify_device.py: what verify_efuses returned or raised
    full_output,            \* scripts/verify_device.py: eFuse name -> text in the summary
    dev,                    \* scripts/verify_device.py: result.device
    post_provision,         \* scripts/verify_device.py: args.post_provision
    efuse,                  \* scripts/verify_device.py: result.efuse
    result,                 \* scripts/verify_device.py: result.checks, result.overall_pass
    exit_status,            \* either tool: the status main exits with
    health_sensor,          \* sensor.py: a SecuraCVCanaryHealthSensor on its own
    health_payload,         \* sensor.py: json.loads of the health message handled last
    health_msgs,            \* sensor.py: health messages handled
    ota_time,               \* ota_deploy.py: time.time()
    ota_files,              \* ota_deploy.py: build environment -> st_mtime of its firmware.bin
    last_deployed,          \* ota_deploy.py: FirmwareHandler.last_deployed
    debounce_time,          \* ota_deploy.py: FirmwareHandler.debounce_time
    ota_last,               \* ota_deploy.py: what the last call of on_modified did
    manifest,               \* create_manifest.py: manifest["devices"] of fleet_manifest.json
    manifest_returned,      \* create_manifest.py: what the last operation returned
    events_payload,         \* __init__.py: what api.async_get_events() returned
    latest_event            \* __init__.py: coordinator.data["latest_event"]

mqtt_vars ==
    <<clock, entities_added, sensor_entities_added, devices, binary_sensors, sensors, created, raised>>

verifier_vars ==
    <<efuse_summary, expect_mode, verification, full_output, dev, post_provision, efuse, result,
      exit_status>>

health_vars == <<health_sensor, health_payload, health_msgs>>

ota_vars == <<ota_time, ota_files, last_deployed, debounce_time, ota_last>>

\* The variables of the machines that stand alone.
manifest_vars == <<manifest, manifest_returned>>

events_vars == <<events_payload, latest_event>>

other_vars == <<health_vars, ota_vars, manifest_vars, events_vars>>

vars == <<mqtt_vars, verifier_vars, other_vars>>

\* Times the monitors of <<registry, device_id, key>> were created: entities
\* handed to async_add_entities, a device given to the device registry.
Created(k) == IF k \in DOMAIN created THEN created[k] ELSE 0

EmptyMap == [x \in {} |-> {}]

\* No message was delivered; no verification tool runs.
MqttIdle ==
    /\ clock = 0
    /\ entities_added = EmptyMap
    /\ sensor_entities_added = EmptyMap
    /\ devices = EmptyMap
    /\ binary_sensors = EmptyMap
    /\ sensors = EmptyMap
    /\ created = EmptyMap
    /\ raised = {}

VerifierIdle ==
    /\ efuse_summary = NotRun
    /\ expect_mode = ""
    /\ verification = NotRun
    /\ full_output = NotRun
    /\ dev = NotRun
    /\ post_provision = FALSE
    /\ efuse = NotRun
    /\ result = NotRun
    /\ exit_status = NotRun

HealthIdle ==
    /\ health_sensor = NotRun
    /\ health_payload = NotRun
    /\ health_msgs = 0

OtaIdle ==
    /\ ota_time = 0
    /\ ota_files = NotRun
    /\ last_deployed = NotRun
    /\ debounce_time = 0
    /\ ota_last = NotRun

ManifestIdle == manifest = NotRun /\ manifest_returned = NotRun

EventsIdle == events_payload = NotRun /\ latest_event = NotRun

OthersIdle == HealthIdle /\ OtaIdle /\ ManifestIdle /\ EventsIdle

Init == MqttIdle /\ VerifierIdle /\ OthersIdle

\* ------------------------------------------------------------------------
\* One MQTT message on prefix/<device_id>/<topic>: every callback subscribed
\* to the topic runs (each @callback runs to completion in the event loop).
\* ------------------------------------------------------------------------

\* _async_discover_binary_sensors: the keys it reports new for the message.
async_discover_binary_sensors(registry, device_id, topic) ==
    IF topic \in BinaryTopics /\ FirstSighting(registry, device_id, BinaryKey(topic))
    THEN {BinaryKey(topic)} ELSE {}

\* _async_discover_sensors
async_discover_sensors(registry, device_id, topic) ==
    IF topic \in SensorTopics /\ FirstSighting(registry, device_id, SensorKey(topic))
    THEN {SensorKey(topic)} ELSE {}

\* Entities whose subscription is not keyed by the device.
BinaryReceivers_AnyDevice(ents, device_id, topic) ==
    {x \in DOMAIN ents :
        /\ ents[x].subscribed
        /\ topic \in BinarySubscriptions(<<x[2], x[3]>>)}

\* The entities whose subscribed handler receives the message.
BinaryReceivers(ents, device_id, topic) ==
    {x \in DOMAIN ents :
        /\ x[1] = device_id
        /\ ents[x].subscribed
        /\ topic \in BinarySubscriptions(<<x[2], x[3]>>)}

SensorReceivers(ents, device_id, topic) ==
    {x \in DOMAIN ents :
        /\ x[1] = device_id
        /\ ents[x].subscribed
        /\ topic \in SensorSubscriptions(<<x[2], x[3]>>)}

\* _async_device_status_received._callback
async_device_status_received(devs, device_id, payload) ==
    [d \in DOMAIN devs \cup {device_id} |->
        IF d = device_id THEN [status |-> payload] ELSE devs[d]]

Deliver(device_id, topic, payload) ==
    LET now == clock + 1
        bnew == async_discover_binary_sensors(entities_added, device_id, topic)
        snew == async_discover_sensors(sensor_entities_added, device_id, topic)
        bcreated == {<<device_id, id[1], id[2]>> : id \in UNION {BinaryEntitiesOf(k) : k \in bnew}}
        screated == {<<device_id, id[1], id[2]>> : id \in UNION {SensorEntitiesOf(k) : k \in snew}}
        brecv == BinaryReceivers(binary_sensors, device_id, topic)
        srecv == SensorReceivers(sensors, device_id, topic)
        bres(x) == BinaryHandle(<<x[2], x[3]>>, topic, binary_sensors[x], payload, now)
        sres(x) == SensorHandle(<<x[2], x[3]>>, topic, sensors[x], payload, now)
        newdev == topic = TOPIC_STATUS /\ device_id \notin DOMAIN devices
    IN
    /\ clock < MaxMessages
    /\ clock' = now
    /\ entities_added' =
          IF topic \in BinaryTopics
          THEN Register(entities_added, device_id, BinaryKey(topic)) ELSE entities_added
    /\ sensor_entities_added' =
          IF topic \in SensorTopics
          THEN Register(sensor_entities_added, device_id, SensorKey(topic))
          ELSE sensor_entities_added
    /\ devices' =
          IF topic = TOPIC_STATUS
          THEN async_device_status_received(devices, device_id, payload) ELSE devices
    /\ binary_sensors' =
          [x \in DOMAIN binary_sensors \cup bcreated |->
              IF x \in bcreated THEN BinaryInitial(<<x[2], x[3]>>)
              ELSE IF x \in brecv THEN bres(x).e
              ELSE binary_sensors[x]]
    /\ sensors' =
          [x \in DOMAIN sensors \cup screated |->
              IF x \in screated THEN NewSensorEntity
              ELSE IF x \in srecv THEN sres(x).e
              ELSE sensors[x]]
    /\ created' =
          LET now_created ==
                  ({"binary_sensor"} \X {device_id} \X bnew)
                      \cup ({"sensor"} \X {device_id} \X snew)
                      \cup (IF newdev THEN {<<"device_registry", device_id, "canary">>} ELSE {})
          IN [k \in DOMAIN created \cup now_created |->
                 IF k \in now_created THEN Created(k) + 1 ELSE created[k]]
    /\ raised' =
          {<<"binary_sensor", <<x[2], x[3]>>, bres(x).exc>> : x \in {y \in brecv : bres(y).exc # ""}}
              \cup {<<"sensor", <<x[2], x[3]>>, sres(x).exc>> :
                       x \in {y \in srecv : sres(y).exc # ""}}
    /\ UNCHANGED <<verifier_vars, other_vars>>

\* async_add_entities has added the batch created under a key: each
\* entity's async_added_to_hass subscribes its handlers.
BinaryAddedToHass(device_id, key) ==
    LET batch == {<<device_id, id[1], id[2]>> : id \in BinaryEntitiesOf(key)} IN
    /\ batch \subseteq DOMAIN binary_sensors
    /\ \E x \in batch : ~binary_sensors[x].subscribed
    /\ binary_sensors' =
          [x \in DOMAIN binary_sensors |->
              IF x \in batch THEN [binary_sensors[x] EXCEPT !.subscribed = TRUE]
              ELSE binary_sensors[x]]
    /\ UNCHANGED <<clock, entities_added, sensor_entities_added, devices, sensors, created, raised>>
    /\ UNCHANGED <<verifier_vars, other_vars>>

SensorAddedToHass(device_id, key) ==
    LET batch == {<<device_id, id[1], id[2]>> : id \in SensorEntitiesOf(key)} IN
    /\ batch \subseteq DOMAIN sensors
    /\ \E x \in batch : ~sensors[x].subscribed
    /\ sensors' =
          [x \in DOMAIN sensors |->
              IF x \in batch THEN [sensors[x] EXCEPT !.subscribed = TRUE] ELSE sensors[x]]
    /\ UNCHANGED <<clock, entities_added, sensor_entities_added, devices, binary_sensors,
                   created, raised>>
    /\ UNCHANGED <<verifier_vars, other_vars>>

Next ==
    \/ \E d \in Devices : \E topic \in TopicsOf(d) : \E p \in PayloadsOf(topic) :
          Deliver(d, topic, p)
    \/ \E d \in Devices, key \in BinaryKeys : BinaryAddedToHass(d, key)
    \/ \E d \in Devices, key \in SensorKeys : SensorAddedToHass(d, key)

Spec == Init /\ [][Next]_vars

\* ------------------------------------------------------------------------
\* The two verification tools, each run once on an input: a profile of
\* eFuse values with at most MaxChanged of them changed.
\* ------------------------------------------------------------------------

\* A name whose entry is taken out of the profile.
Missing == [t |-> "missing"]

\* The changes of at most MaxChanged names to the values.
Changes(names, values) ==
    UNION {[S -> values] : S \in {T \in SUBSET names : Cardinality(T) <= MaxChanged}}

\* The profile with the changes made.
Apply(base, ch) ==
    [n \in DOMAIN base \cup DOMAIN ch |-> IF n \in DOMAIN ch THEN ch[n] ELSE base[n]]

\* The map without the names whose entry is Missing.
Drop(map) == [n \in {m \in DOMAIN map : map[m] # Missing} |-> map[n]]

\* efuse_data as get_efuse_summary returns it: a value, or a dict holding it.
EfuseValues ==
    {JInt(0), JInt(1), JInt(7), JStr("0x1"), JObj([value |-> JInt(1)]),
     JObj([name |-> JStr("BLOCK0")])}

NoEfuses == [n \in {} |-> JNull]
VirginEfuses == [n \in EfuseNames |-> JInt(0)]
LockedEfuses ==
    [n \in EfuseNames |->
        CASE n \in {"SPI_BOOT_CRYPT_CNT", "SOFT_DIS_JTAG"} -> JInt(7)
          [] n \in {"JTAG_SEL_ENABLE", "SECURE_VERSION"} -> JInt(0)
          [] OTHER -> JInt(1)]

EfuseDataInputs ==
    {Drop(Apply(base, ch)) : base \in {NoEfuses, VirginEfuses, LockedEfuses},
                             ch \in Changes(EfuseNames, EfuseValues \cup {Missing})}

\* The modes verify_efuses is called with; the last is the mode name of the
\* other tool.
ModeInputs == {"virgin", "locked", "post_provision"}

\* Summaries: nothing readable, a factory-new chip, a provisioned chip.
BlankSummary == [n \in int_fields \cup str_fields |-> ""]
VirginSummary == [n \in int_fields \cup str_fields |-> IF n \in int_fields THEN "0" ELSE "USER"]
ProvisionedSummary ==
    [n \in int_fields \cup str_fields |->
        CASE n = "SPI_BOOT_CRYPT_CNT" -> "7"
          [] n = "KEY_PURPOSE_0" -> "XTS_AES_128_KEY"
          [] n = "KEY_PURPOSE_1" -> "SECURE_BOOT_DIGEST0"
          [] n \in str_fields -> "USER"
          [] n = "JTAG_SEL_ENABLE" -> "0"
          [] OTHER -> "1"]

SummaryChanges ==
    {ch \in Changes(int_fields \cup str_fields, IntTexts \cup PurposeTexts) :
        \A n \in DOMAIN ch :
            IF n \in int_fields THEN ch[n] \in IntTexts ELSE ch[n] \in PurposeTexts}

SummaryInputs ==
    {Apply(base, ch) : base \in {BlankSummary, VirginSummary, ProvisionedSummary},
                       ch \in SummaryChanges}

VerifierInit ==
    /\ MqttIdle
    /\ OthersIdle
    /\ verification = NotRun
    /\ efuse = NotRun
    /\ result = NotRun
    /\ exit_status = NotRun
    /\ \/ /\ efuse_summary \in EfuseDataInputs \cup {NoData}
          /\ expect_mode \in ModeInputs \cup {NoMode}
          /\ full_output = NotRun
          /\ dev = NotRun
          /\ post_provision = FALSE
       \/ /\ full_output \in SummaryInputs \cup {Raised("RuntimeError")}
          /\ dev \in DeviceIdentities \cup {Raised("RuntimeError")}
          /\ post_provision \in BOOLEAN
          /\ efuse_summary = NotRun
          /\ expect_mode = ""

\* verify_device.py generate_report: verification = verify_efuses(efuse_data,
\* expect_mode), for data that was read and a mode that was given.
VerifyEfuses ==
    /\ efuse_summary \notin {NotRun, NoData}
    /\ expect_mode # NoMode
    /\ verification = NotRun
    /\ verification' = verify_efuses(efuse_summary, expect_mode)
    /\ UNCHANGED <<mqtt_vars, other_vars, efuse_summary, expect_mode, full_output, dev, post_provision,
                   efuse, result, exit_status>>

\* verify_device.py main: sys.exit with the status of the report; an
\* exception of verify_efuses nothing catches ends the interpreter.
Exit ==
    /\ efuse_summary # NotRun
    /\ expect_mode \in CliModes
    /\ exit_status = NotRun
    /\ efuse_summary = NoData \/ expect_mode = NoMode \/ verification # NotRun
    /\ exit_status' =
          IF verification.t = "raised" THEN Exited(UncaughtExit)
          ELSE Exited(ExitCode(ReportStatus(efuse_summary, expect_mode, verification)))
    /\ UNCHANGED <<mqtt_vars, other_vars, efuse_summary, expect_mode, verification, full_output, dev,
                   post_provision, efuse, result>>

\* scripts/verify_device.py main: result.efuse = read_efuse_state(args.port),
\* after the identity was read; run_espefuse raises if espefuse failed.
ReadEfuseState ==
    /\ full_output # NotRun
    /\ dev # Raised("RuntimeError")
    /\ efuse = NotRun
    /\ efuse' = IF full_output = Raised("RuntimeError") THEN full_output
                ELSE read_efuse_state(full_output)
    /\ UNCHANGED <<mqtt_vars, other_vars, efuse_summary, expect_mode, verification, full_output, dev,
                   post_provision, result, exit_status>>

\* scripts/verify_device.py main: the checks of the mode and the summary.
Verify ==
    /\ efuse # NotRun
    /\ efuse # Raised("RuntimeError")
    /\ result = NotRun
    /\ result' = RunChecks(post_provision, dev, efuse)
    /\ UNCHANGED <<mqtt_vars, other_vars, efuse_summary, expect_mode, verification, full_output, dev,
                   post_provision, efuse, exit_status>>

\* scripts/verify_device.py main: sys.exit(2) where a read raised,
\* sys.exit(0 if result.overall_pass else 1) at the end.
ScriptExit ==
    /\ full_output # NotRun
    /\ exit_status = NotRun
    /\ \/ /\ dev = Raised("RuntimeError") \/ efuse = Raised("RuntimeError")
          /\ exit_status' = Exited(2)
       \/ /\ result # NotRun
          /\ exit_status' = Exited(IF result.overall_pass THEN 0 ELSE 1)
    /\ UNCHANGED <<mqtt_vars, other_vars, efuse_summary, expect_mode, verification, full_output, dev,
                   post_provision, efuse, result>>

VerifierNext == VerifyEfuses \/ Exit \/ ReadEfuseState \/ Verify \/ ScriptExit

VerifierSpec == VerifierInit /\ [][VerifierNext]_vars

\* ------------------------------------------------------------------------
\* The health sensor on its own: it handles up to MaxHealthMessages health
\* messages, each with its own battery and memory_free.
\* ------------------------------------------------------------------------

BatteryValues == {JInt(9), JInt(10), JInt(24), JInt(25), JInt(100), JStr("9")}
MemoryFreeValues == {JInt(0), JInt(1023), JInt(1024), JStr("1k")}

\* json.loads of the health payloads: a dict with or without either field,
\* a JSON string, or the error for text that is no JSON.
HealthData ==
    {JObj(Drop([battery |-> b, memory_free |-> m])) :
        b \in BatteryValues \cup {Missing}, m \in MemoryFreeValues \cup {Missing}}
        \cup {JStr("cut"), JSONDecodeError}

HealthInit ==
    /\ MqttIdle
    /\ VerifierIdle
    /\ OtaIdle
    /\ ManifestIdle
    /\ EventsIdle
    /\ health_sensor = [NewSensorEntity EXCEPT !.subscribed = TRUE]
    /\ health_payload = NotRun
    /\ health_msgs = 0

\* SecuraCVCanaryHealthSensor._handle_message on one health message.
HandleHealth(data) ==
    /\ health_msgs < MaxHealthMessages
    /\ health_sensor' = Health_handle_data(health_sensor, data).e
    /\ health_payload' = data
    /\ health_msgs' = health_msgs + 1
    /\ UNCHANGED <<mqtt_vars, verifier_vars, ota_vars, manifest_vars, events_vars>>

HealthNext == \E data \in HealthData : HandleHealth(data)

HealthSpec == HealthInit /\ [][HealthNext]_vars

\* ------------------------------------------------------------------------
\* firmware/canary/scripts/ota_deploy.py: watch mode. Builds write the
\* firmware.bin of a build environment, the observer calls on_modified for
\* each file written, and the clock runs for MaxElapsed seconds.
\* ------------------------------------------------------------------------

\* time.time() when the watcher starts, in seconds.
Epoch == 10

\* The environments under the build directory.
Environments == {"esp32s3", "debug"}

\* None, as find_firmware returns it and last_deployed starts.
None == "None"

\* str(env_dir / FIRMWARE_NAME)
FirmwarePath(env) == IF env = "esp32s3" THEN ".pio/build/esp32s3/firmware.bin"
                     ELSE ".pio/build/debug/firmware.bin"

\* The files a build writes: the firmware of an environment, or its ELF.
Sources == {FirmwarePath(env) : env \in Environments} \cup {".pio/build/esp32s3/firmware.elf"}

\* event.src_path.endswith(".bin")
EndsWithBin(src_path) == src_path \in {FirmwarePath(env) : env \in Environments}

\* find_firmware(build_dir): the firmware with the greatest st_mtime above
\* 0, or None; of two firmwares of one st_mtime the one iterdir yields first,
\* in an order the file system chooses.
find_firmware(files) ==
    LET found == {env \in Environments : files[env] > 0}
        latest == {env \in found : \A other \in found : files[other] <= files[env]}
    IN IF found = {} THEN {None} ELSE {FirmwarePath(env) : env \in latest}

\* firmware and str(firmware) != self.last_deployed
IsNew(firmware, deployed) == firmware # None /\ firmware # deployed

OtaInit ==
    /\ MqttIdle
    /\ VerifierIdle
    /\ HealthIdle
    /\ ManifestIdle
    /\ EventsIdle
    /\ ota_time = Epoch
    /\ ota_files \in [Environments -> {0, Epoch - 1}]
    /\ last_deployed = None
    /\ debounce_time = 0
    /\ ota_last = NotRun

\* time passes
Tick ==
    /\ ota_time < Epoch + MaxElapsed
    /\ ota_time' = ota_time + 1
    /\ UNCHANGED <<mqtt_vars, verifier_vars, health_vars, manifest_vars, events_vars,
                   ota_files, last_deployed, debounce_time, ota_last>>

\* A build writes src_path and the observer calls
\* FirmwareHandler.on_modified(FileModifiedEvent(src_path)); ok is what
\* deploy_firmware returns if it is called.
OnModified(src_path, ok) ==
    LET now == ota_time
        written == [env \in Environments |->
                       IF FirmwarePath(env) = src_path THEN now ELSE ota_files[env]]
    IN
    /\ ota_time < Epoch + MaxElapsed
    /\ ota_files' = written
    /\ IF ~EndsWithBin(src_path)
       THEN /\ ota_last' = [src_path |-> src_path, debounced |-> FALSE, firmware |-> None,
                            deployed |-> FALSE, ok |-> FALSE, before |-> last_deployed]
            /\ UNCHANGED <<ota_time, last_deployed, debounce_time>>
       ELSE IF now - debounce_time < 2
       THEN /\ ota_last' = [src_path |-> src_path, debounced |-> TRUE, firmware |-> None,
                            deployed |-> FALSE, ok |-> FALSE, before |-> last_deployed]
            /\ UNCHANGED <<ota_time, last_deployed, debounce_time>>
       ELSE \E firmware \in find_firmware(written) :
            LET deploy == IsNew(firmware, last_deployed) IN
            /\ debounce_time' = now
            /\ ota_time' = now + 1
            /\ last_deployed' = IF deploy /\ ok THEN firmware ELSE last_deployed
            /\ ota_last' = [src_path |-> src_path, debounced |-> FALSE, firmware |-> firmware,
                            deployed |-> deploy, ok |-> deploy /\ ok, before |-> last_deployed]
    /\ UNCHANGED <<mqtt_vars, verifier_vars, health_vars, manifest_vars, events_vars>>

OtaNext ==
    \/ Tick
    \/ \E src_path \in Sources, ok \in BOOLEAN : OnModified(src_path, ok)

OtaSpec == OtaInit /\ [][OtaNext]_vars

\* ------------------------------------------------------------------------
\* firmware/provisioning/create_manifest.py: the fleet manifest. The model
\* keeps the device list of fleet_manifest.json, each device with its mac
\* and location; the timestamps save_manifest writes are left out.
\* ------------------------------------------------------------------------

\* MAC addresses as the operator types them and as imported files hold them.
Macs == {"AA:01", "aa:01", "BB:02"}

\* str.lower() and str.upper() on the MAC addresses
Lower(mac) == IF mac \in {"AA:01", "aa:01"} THEN "aa:01" ELSE "bb:02"
Upper(mac) == IF mac \in {"AA:01", "aa:01"} THEN "AA:01" ELSE "BB:02"

\* --location, None when the flag is absent
Locations == {None, "lab"}

ManifestDevices == [mac : Macs, location : Locations]

\* The device lists of the files import_manifest reads.
RECURSIVE SeqsUpTo(_, _)
SeqsUpTo(S, n) ==
    IF n = 0 THEN {<<>>}
    ELSE LET shorter == SeqsUpTo(S, n - 1) IN
         shorter \cup {Append(q, x) : q \in {r \in shorter : Len(r) = n - 1}, x \in S}

Imports == SeqsUpTo(ManifestDevices, MaxImport)

\* The index of the first device with the MAC, 0 when there is none:
\* the loops of add_device and remove_device.
FirstWithMac(device_list, mac) ==
    LET hits == {i \in DOMAIN device_list : Lower(device_list[i].mac) = Lower(mac)} IN
    IF hits = {} THEN 0 ELSE CHOOSE i \in hits : \A j \in hits : i <= j

\* add_device(mac, location=location): manifest["devices"] afterwards
add_device(device_list, mac, location) ==
    LET i == FirstWithMac(device_list, mac) IN
    IF i # 0
    THEN [device_list EXCEPT ![i].location = IF location # None THEN location ELSE @]
    ELSE Append(device_list, [mac |-> Upper(mac), location |-> location])

\* remove_device(mac): manifest["devices"] afterwards
remove_device(device_list, mac) ==
    LET i == FirstWithMac(device_list, mac) IN
    IF i = 0 THEN device_list
    ELSE [k \in 1..(Len(device_list) - 1) |-> IF k < i THEN device_list[k] ELSE device_list[k + 1]]

\* import_manifest(input_file, merge=True): existing_macs is computed before
\* the loop and the loop appends each imported device whose MAC is not in it.
RECURSIVE import_merge_loop(_, _, _, _)
import_merge_loop(i, device_list, imported, existing_macs) ==
    IF i > Len(imported) THEN device_list
    ELSE import_merge_loop(i + 1,
                           IF Lower(imported[i].mac) \notin existing_macs
                           THEN Append(device_list, imported[i]) ELSE device_list,
                           imported, existing_macs)

import_manifest(device_list, imported, merge) ==
    IF ~merge THEN imported
    ELSE import_merge_loop(1, device_list, imported,
                           {Lower(device_list[i].mac) : i \in DOMAIN device_list})

\* load_manifest() without a manifest file: no device_list
ManifestInit ==
    /\ MqttIdle
    /\ VerifierIdle
    /\ HealthIdle
    /\ OtaIdle
    /\ EventsIdle
    /\ manifest = <<>>
    /\ manifest_returned = NotRun

\* What an operation of the tool returned: the device of add_device, the
\* flag of remove_device, the count of import_manifest.
Returned(by, device, removed, count) ==
    [t |-> "returned", by |-> by, device |-> device, removed |-> removed, count |-> count]

AddDevice(mac, location) ==
    /\ Len(add_device(manifest, mac, location)) <= MaxDevices
    /\ manifest' = add_device(manifest, mac, location)
    /\ manifest_returned' = Returned("add_device",
                                     manifest'[IF FirstWithMac(manifest, mac) # 0
                                               THEN FirstWithMac(manifest, mac)
                                               ELSE Len(manifest')],
                                     FALSE, 0)
    /\ UNCHANGED <<mqtt_vars, verifier_vars, health_vars, ota_vars, events_vars>>

RemoveDevice(mac) ==
    /\ manifest' = remove_device(manifest, mac)
    /\ manifest_returned' = Returned("remove_device", NotRun,
                                     FirstWithMac(manifest, mac) # 0, 0)
    /\ UNCHANGED <<mqtt_vars, verifier_vars, health_vars, ota_vars, events_vars>>

ImportManifest(imported, merge) ==
    /\ Len(import_manifest(manifest, imported, merge)) <= MaxDevices
    /\ manifest' = import_manifest(manifest, imported, merge)
    /\ manifest_returned' = Returned("import_manifest", NotRun, FALSE,
                                     IF merge THEN Len(manifest') - Len(manifest)
                                     ELSE Len(imported))
    /\ UNCHANGED <<mqtt_vars, verifier_vars, health_vars, ota_vars, events_vars>>

ManifestNext ==
    \/ \E mac \in Macs, location \in Locations : AddDevice(mac, location)
    \/ \E mac \in Macs : RemoveDevice(mac)
    \/ \E imported \in Imports, merge \in BOOLEAN : ImportManifest(imported, merge)

ManifestSpec == ManifestInit /\ [][ManifestNext]_vars

\* ------------------------------------------------------------------------
\* custom_components/securacv/__init__.py and
\* custom_components/secura_cv/__init__.py: _select_latest_event, the same
\* function in both, applied by the coordinator to the payload of the
\* events API.
\* ------------------------------------------------------------------------

\* The payloads have BatchCount batches of BucketCount buckets each.
BatchCount == 2
BucketCount == 2

\* time_bucket.start_epoch_s of an event: integers, a bool, a string
StartValues == {JInt(0 - 5), JInt(0), JInt(7), JBool(TRUE), JStr("7")}

\* Events: with a time_bucket that holds a start_epoch_s, with an empty
\* time_bucket, and without time_bucket.
ApiEvents ==
    LET types == {JStr("boundary_crossing"), JStr("presence")}
        time_buckets == {JObj([start_epoch_s |-> v]) : v \in StartValues} \cup {EmptyDict}
    IN {JObj([event_type |-> ty, time_bucket |-> tb]) : ty \in types, tb \in time_buckets}
       \cup {JObj([event_type |-> ty]) : ty \in types}

\* The ways to lay n events out over the buckets, in order.
Layouts(n) ==
    {l \in [1..n -> 1..(BatchCount * BucketCount)] : \A i, j \in 1..n : i <= j => l[i] <= l[j]}

\* The events of bucket b under a layout, in order.
RECURSIVE EventsOfBucket(_, _, _, _)
EventsOfBucket(events, layout, b, i) ==
    IF i > Len(events) THEN <<>>
    ELSE (IF layout[i] = b THEN <<events[i]>> ELSE <<>>)
         \o EventsOfBucket(events, layout, b, i + 1)

\* A container with its list under the key; a bare container leaves the
\* key out when the list is empty.
Container(key, items, bare) ==
    IF bare /\ items = <<>> THEN EmptyDict ELSE JObj([k \in {key} |-> JList(items)])

\* The payload of the events under a layout.
PayloadOf(events, layout, bare) ==
    LET bucket(b) == Container("events", EventsOfBucket(events, layout, b, 1), bare)
        batch(a) ==
            LET buckets == [j \in 1..BucketCount |-> bucket((a - 1) * BucketCount + j)] IN
            IF bare /\ \A j \in 1..BucketCount : buckets[j] = EmptyDict
            THEN EmptyDict ELSE JObj([k \in {"buckets"} |-> JList(buckets)])
        batches == [a \in 1..BatchCount |-> batch(a)]
    IN IF bare /\ events = <<>> THEN EmptyDict
       ELSE JObj([k \in {"batches"} |-> JList(batches)])

\* The concatenation of the lists of a list.
RECURSIVE Chain(_, _)
Chain(lists, i) == IF i > Len(lists) THEN <<>> ELSE lists[i] \o Chain(lists, i + 1)

\* all_events: event for batch in payload.get("batches", []) for bucket in
\* batch.get("buckets", []) for event in bucket.get("events", [])
all_events(api_payload) ==
    LET batches == Get(api_payload, "batches", JList(<<>>)).items
        of_bucket(bucket) == Get(bucket, "events", JList(<<>>)).items
        of_batch(batch) ==
            LET buckets == Get(batch, "buckets", JList(<<>>)).items IN
            Chain([j \in DOMAIN buckets |-> of_bucket(buckets[j])], 1)
    IN Chain([a \in DOMAIN batches |-> of_batch(batches[a])], 1)

\* A key that ranks an event without an integer start with the epoch.
_start_epoch_Zero(event) ==
    LET start == Get(Get(event, "time_bucket", EmptyDict), "start_epoch_s", JNull) IN
    IF IsNumber(start) THEN Num(start) ELSE 0

\* _start_epoch(event): isinstance(start, int) holds of an int and of a bool
_start_epoch(event) ==
    LET start == Get(Get(event, "time_bucket", EmptyDict), "start_epoch_s", JNull) IN
    IF IsNumber(start) THEN Num(start) ELSE 0 - 1

\* max(all_events, key=_start_epoch, default=None): the first item with the
\* greatest key
RECURSIVE max_loop(_, _, _)
max_loop(items, i, best) ==
    IF i > Len(items) THEN best
    ELSE max_loop(items, i + 1,
                  IF _start_epoch(items[i]) > _start_epoch(best) THEN items[i] ELSE best)

_select_latest_event(api_payload) ==
    LET items == all_events(api_payload) IN
    IF items = <<>> THEN JNull ELSE max_loop(items, 2, items[1])

\* The coordinator before its first refresh, and the payload the API returns.
EventsInit ==
    /\ MqttIdle
    /\ VerifierIdle
    /\ HealthIdle
    /\ OtaIdle
    /\ ManifestIdle
    /\ \E events \in SeqsUpTo(ApiEvents, MaxEvents) :
          \E layout \in Layouts(Len(events)), bare \in BOOLEAN :
             events_payload = PayloadOf(events, layout, bare)
    /\ latest_event = NotRun

\* _async_update_data: {"latest_event": _select_latest_event(payload)}
UpdateData ==
    /\ latest_event = NotRun
    /\ latest_event' = _select_latest_event(events_payload)
    /\ UNCHANGED <<mqtt_vars, verifier_vars, health_vars, ota_vars, manifest_vars,
                   events_payload>>

EventsNext == UpdateData

EventsSpec == EventsInit /\ [][EventsNext]_vars

\* ------------------------------------------------------------------------
\* Properties
\* ------------------------------------------------------------------------
TamperTypeId(d, t) == <<d, "tamper_type", t>>
GeneralTamperId(d) == <<d, "tamper", "">>

\* The entity exists and its state is "on".
IsOn(ents, x) == x \in DOMAIN ents /\ Truthy(ents[x].is_on)

\* C1: sticky latch -- once a tamper-type signal of a device is true, no
\* message sets it back to false, and a health message leaves the
\* last_triggered of a signal that was true unchanged.
C1_StickyLatch ==
    [][\A d \in Devices, t \in TamperTypes :
          IsOn(binary_sensors, TamperTypeId(d, t)) =>
              /\ IsOn(binary_sensors', TamperTypeId(d, t))
              /\ (\E p \in HealthPayloads : Deliver(d, TOPIC_HEALTH, p)) =>
                    binary_sensors'[TamperTypeId(d, t)].last_triggered
                        = binary_sensors[TamperTypeId(d, t)].last_triggered]_vars

\* Health payloads that report no tamper (tamper_detected and tamper absent
\* or false) and breach no threshold.
CleanHealthPayloads == {"{}", "{\"free_heap\": 10000}"}

\* C2: once the general (any-tamper) signal of a device is true, a clean
\* health message leaves it true.
C2_NotClearedByCleanHealth ==
    [][\A d \in Devices : \A p \in CleanHealthPayloads :
          IsOn(binary_sensors, GeneralTamperId(d)) /\ Deliver(d, TOPIC_HEALTH, p) =>
              IsOn(binary_sensors', GeneralTamperId(d))]_vars

\* Health payloads that breach a tamper threshold (free_heap < 10000,
\* sd_errors > 0).
BreachingHealthPayloads == {"{\"free_heap\": 9999}", "{\"sd_errors\": 1}"}

\* C3: after any tamper-topic message for a device, and after any health
\* message that breaches a threshold, the device's general tamper signal is
\* true -- also when it is the first message seen for the device.
C3_GeneralTamperSet ==
    [][\A d \in Devices :
          \/ \E p \in TamperPayloads : Deliver(d, TOPIC_TAMPER, p)
          \/ \E p \in BreachingHealthPayloads : Deliver(d, TOPIC_HEALTH, p)
          => IsOn(binary_sensors', GeneralTamperId(d))]_vars

\* Payloads json.loads rejects, on the topics whose handlers call it.
JsonTopics == Topics \ {TOPIC_STATUS}
Undecodable(topic) == {p \in PayloadsOf(topic) : json_loads(p) = JSONDecodeError}

\* The entities of a device other than those in `except` are as they were.
BinaryUnchangedExcept(d, except) ==
    \A x \in DOMAIN binary_sensors :
        x[1] = d /\ x \notin except => x \in DOMAIN binary_sensors' /\ binary_sensors'[x] = binary_sensors[x]
SensorsUnchangedExcept(d, except) ==
    \A x \in DOMAIN sensors :
        x[1] = d /\ x \notin except => x \in DOMAIN sensors' /\ sensors'[x] = sensors[x]

Subscribed(ents, x) == x \in DOMAIN ents /\ ents[x].subscribed

C5_NoHandlerRaises == raised = {}

\* The batch of entities a discovery callback creates under a key.
BinaryBatch(d, key) == {<<d, id[1], id[2]>> : id \in BinaryEntitiesOf(key)}
SensorBatch(d, key) == {<<d, id[1], id[2]>> : id \in SensorEntitiesOf(key)}

\* C6: the first discovery call for (d, c) creates the monitors of c, and
\* every later call for (d, c) creates nothing, whatever other categories
\* of d were seen before. A pair had no call yet exactly when its creation
\* count is 0, since every call leaves the count at 1.
C6_IdempotentDiscovery ==
    [][\A d \in Devices, topic \in Topics : \A p \in PayloadsOf(topic) :
          Deliver(d, topic, p) =>
              /\ topic \in BinaryTopics =>
                    LET key == BinaryKey(topic)
                        k == <<"binary_sensor", d, key>>
                    IN /\ Created(k)' = 1
                       /\ Created(k) = 0 =>
                             /\ BinaryBatch(d, key) \cap DOMAIN binary_sensors = {}
                             /\ DOMAIN binary_sensors' = DOMAIN binary_sensors \cup BinaryBatch(d, key)
                       /\ Created(k) = 1 => DOMAIN binary_sensors' = DOMAIN binary_sensors
              /\ topic \in SensorTopics =>
                    LET key == SensorKey(topic)
                        k == <<"sensor", d, key>>
                    IN /\ Created(k)' = 1
                       /\ Created(k) = 0 =>
                             /\ SensorBatch(d, key) \cap DOMAIN sensors = {}
                             /\ DOMAIN sensors' = DOMAIN sensors \cup SensorBatch(d, key)
                       /\ Created(k) = 1 => DOMAIN sensors' = DOMAIN sensors]_vars

\* C6 witness: one device had three messages over two categories, so one
\* pair had a first and a later call and the other pair a first call after
\* it or between them.
C6_Witness ==
    /\ clock = 3
    /\ DOMAIN entities_added = {"canary1"}
    /\ entities_added["canary1"] = {"mesh_connected", "chirp_active"}
    /\ Created(<<"binary_sensor", "canary1", "mesh_connected">>) = 1
    /\ Created(<<"binary_sensor", "canary1", "chirp_active">>) = 1

\* C7: no (registry, device, category) has its monitors created more than
\* once.
C7_AtMostOnceCreation == \A k \in DOMAIN created : created[k] <= 1

\* C7 witness: three messages of one category of one device, and its
\* monitors and its device were created once.
C7_Witness ==
    /\ clock = 3
    /\ entities_added = [d \in {"canary2"} |-> {"online"}]
    /\ created = [k \in {<<"binary_sensor", "canary2", "online">>,
                         <<"device_registry", "canary2", "canary">>} |-> 1]

\* What a message can change of an entity.
BinaryStateOf(e) == <<e.is_on, e.attrs, e.last_triggered>>
SensorStateOf(e) == <<e.native_value, e.attrs>>

C9_DiscoveryPrecedesClassification ==
    /\ \A x \in DOMAIN binary_sensors :
          \E key \in BinaryKeys :
              /\ <<x[2], x[3]>> \in BinaryEntitiesOf(key)
              /\ ~FirstSighting(entities_added, x[1], key)
    /\ \A x \in DOMAIN sensors :
          \E key \in SensorKeys :
              /\ <<x[2], x[3]>> \in SensorEntitiesOf(key)
              /\ ~FirstSighting(sensor_entities_added, x[1], key)

\* C9 witness: a signal of each platform was updated by a message, and its
\* pair is in the registry.
C9_Witness ==
    \E d \in Devices :
        /\ Subscribed(binary_sensors, <<d, "chain_valid", "">>)
        /\ binary_sensors[<<d, "chain_valid", "">>].attrs # NoAttrs
        /\ "chain_valid" \in entities_added[d]
        /\ Subscribed(sensors, <<d, "chain_length", "">>)
        /\ sensors[<<d, "chain_length", "">>].attrs # NoAttrs
        /\ "chain" \in sensor_entities_added[d]

\* C10: a decoded health message leaves the subscribed memory-critical signal
\* true exactly when the message has a free_heap below 10000: 9999 gives
\* true, 10000 gives false, no free_heap gives false.
C10_ThresholdBoundary ==
    [][\A d \in Devices : \A p \in HealthPayloads :
          LET x == TamperTypeId(d, TAMPER_MEMORY)
              data == json_loads(p)
          IN Subscribed(binary_sensors, x) /\ IsDict(data) /\ Deliver(d, TOPIC_HEALTH, p) =>
                binary_sensors'[x].is_on =
                    JBool("free_heap" \in DOMAIN data.f /\ data.f.free_heap.n < 10000)]_vars

\* C10 witness: the memory-critical signal is on and carries the attributes
\* only the health handler leaves.
C10_Witness ==
    \E d \in Devices :
        LET x == TamperTypeId(d, TAMPER_MEMORY) IN
        /\ IsOn(binary_sensors, x)
        /\ DOMAIN binary_sensors[x].attrs = {"last_triggered"}

\* The handler of a tamper-type sensor reads the message as "true": its
\* classification of the message alone, from the sensor's initial state.
AssertsTamperType(t, topic, p) ==
    Truthy(BinaryHandle(<<"tamper_type", t>>, topic, BinaryInitial(<<"tamper_type", t>>), p, 1).e.is_on)

\* C11: the last_triggered of a tamper-type signal changes only with a
\* message that asserts the signal true; every message that asserts the
\* signal true while it is true already sets last_triggered to the time of
\* that message; and a last_triggered that is set is never cleared.
C11_LastTriggered ==
    [][\A d \in Devices, t \in TamperTypes :
          LET x == TamperTypeId(d, t) IN
          x \in DOMAIN binary_sensors =>
              /\ binary_sensors'[x].last_triggered # binary_sensors[x].last_triggered =>
                    \E topic \in {TOPIC_TAMPER, TOPIC_HEALTH} : \E p \in PayloadsOf(topic) :
                        Deliver(d, topic, p) /\ AssertsTamperType(t, topic, p)
              /\ \A topic \in {TOPIC_TAMPER, TOPIC_HEALTH} : \A p \in PayloadsOf(topic) :
                    IsOn(binary_sensors, x) /\ AssertsTamperType(t, topic, p)
                            /\ Deliver(d, topic, p) =>
                        binary_sensors'[x].last_triggered = clock'
              /\ binary_sensors[x].last_triggered # NoTime =>
                    binary_sensors'[x].last_triggered # NoTime]_vars

\* The chain payload decodes to an object whose "valid" or "integrity" is
\* present and false.
ReportsChainInvalid(p) ==
    LET data == json_loads(p) IN
    /\ IsDict(data)
    /\ \E k \in {"valid", "integrity"} : k \in DOMAIN data.f /\ ~Truthy(data.f[k])

ChainValidId(d) == <<d, "chain_valid", "">>

\* C12: the chain-valid signal of a device is created true, goes from true
\* to false only with a chain message that reports valid or integrity false,
\* and a chain payload that cannot be decoded leaves the signal as it was.
C12_ChainValidOptimistic ==
    [][\A d \in Devices :
          LET x == ChainValidId(d) IN
          /\ x \notin DOMAIN binary_sensors /\ x \in DOMAIN binary_sensors' =>
                IsOn(binary_sensors', x)
          /\ IsOn(binary_sensors, x) /\ ~IsOn(binary_sensors', x) =>
                \E p \in ChainPayloads : Deliver(d, TOPIC_CHAIN, p) /\ ReportsChainInvalid(p)
          /\ \A p \in Undecodable(TOPIC_CHAIN) :
                x \in DOMAIN binary_sensors /\ Deliver(d, TOPIC_CHAIN, p) =>
                    binary_sensors'[x] = binary_sensors[x]]_vars

\* C12 witness: a chain-valid signal, created true, is false after a chain
\* message and a third message has been handled since its creation.
C12_Witness ==
    \E d \in Devices :
        /\ ChainValidId(d) \in DOMAIN binary_sensors
        /\ ~IsOn(binary_sensors, ChainValidId(d))
        /\ binary_sensors[ChainValidId(d)].attrs # NoAttrs
        /\ clock = 3

\* The instantaneous signals: online, each transport channel, mesh-connected
\* and chirp-active.
InstantaneousIds ==
    {<<"online", "">>, <<"mesh_connected", "">>, <<"chirp_active", "">>}
        \cup {<<"transport", t>> : t \in TransportTypes}

\* C13: a decodable message fully replaces an instantaneous signal: the
\* value after the message is the value the same message gives a signal
\* that starts from its initial value, whatever the value before was.
C13_InstantaneousReplaced ==
    [][\A d \in Devices, id \in InstantaneousIds : \A topic \in BinarySubscriptions(id) :
          \A p \in PayloadsOf(topic) \ Undecodable(topic) :
              LET x == <<d, id[1], id[2]>> IN
              Subscribed(binary_sensors, x) /\ Deliver(d, topic, p) =>
                  binary_sensors'[x].is_on
                      = BinaryHandle(id, topic, BinaryInitial(id), p, clock').e.is_on]_vars

\* A key that is not in the payload.
Absent == [t |-> "absent"]

\* The value at a path of one key, or of two keys through a nested object.
Lookup(data, path) ==
    IF path[1] \notin DOMAIN data.f THEN Absent
    ELSE IF Len(path) = 1 THEN data.f[path[1]]
    ELSE LET inner == data.f[path[1]] IN
         IF IsDict(inner) /\ path[2] \in DOMAIN inner.f THEN inner.f[path[2]] ELSE Absent

\* First-present-wins over the paths in order: the value at the first path
\* the payload holds, the default when it holds none.
RECURSIVE FirstPresent(_, _, _)
FirstPresent(data, paths, default) ==
    IF paths = <<>> THEN default
    ELSE IF Lookup(data, Head(paths)) # Absent THEN Lookup(data, Head(paths))
    ELSE FirstPresent(data, Tail(paths), default)

\* The logical fields with alternate keys: the signal, its topic, the keys
\* in the order the handler names them, and the default.
AlternateKeyRules ==
    {[id |-> <<"tamper", "">>, topic |-> TOPIC_HEALTH,
      paths |-> << <<"tamper_detected">>, <<"tamper">> >>, default |-> JBool(FALSE)],
     [id |-> <<"chain_valid", "">>, topic |-> TOPIC_CHAIN,
      paths |-> << <<"valid">>, <<"integrity">> >>, default |-> JBool(TRUE)],
     [id |-> <<"tamper_type", TAMPER_GPIO>>, topic |-> TOPIC_HEALTH,
      paths |-> << <<"tamper", "gpio">>, <<"tamper_gpio">> >>, default |-> JBool(FALSE)],
     [id |-> <<"tamper_type", TAMPER_GPS_JAMMING>>, topic |-> TOPIC_HEALTH,
      paths |-> << <<"gps_fix_lost">>, <<"gps_jamming">> >>, default |-> JBool(FALSE)],
     [id |-> <<"tamper_type", TAMPER_MOTION>>, topic |-> TOPIC_HEALTH,
      paths |-> << <<"tamper", "motion">>, <<"unexpected_motion">> >>, default |-> JBool(FALSE)],
     [id |-> <<"tamper_type", TAMPER_ENCLOSURE>>, topic |-> TOPIC_HEALTH,
      paths |-> << <<"tamper", "enclosure">>, <<"enclosure_open">> >>, default |-> JBool(FALSE)]}

\* C14: for every field with alternate keys, the signal after a message is
\* the truth of the first key present in the payload, in the handler's
\* order; a later key counts only when every earlier key is absent. (A
\* handler that raises on the message is left aside here.)
C14_FirstPresentWins ==
    [][\A d \in Devices, rule \in AlternateKeyRules :
          \A p \in {q \in PayloadsOf(rule.topic) : IsDict(json_loads(q))} :
              LET x == <<d, rule.id[1], rule.id[2]>> IN
              /\ Subscribed(binary_sensors, x)
              /\ Deliver(d, rule.topic, p)
              /\ <<"binary_sensor", rule.id, "AttributeError">> \notin raised'
              => Truthy(binary_sensors'[x].is_on)
                    = Truthy(FirstPresent(json_loads(p), rule.paths, rule.default))]_vars

\* ------------------------------------------------------------------------
\* Properties of the verification tools
\* ------------------------------------------------------------------------
VerifyEfusesReturned == verification.t = "report"
VerifyEfusesDone == verification.t \in {"report", "raised"}
ChecksDone == result # NotRun

\* C15: an eFuse that is absent or unreadable gives a failing check, in
\* either tool and either mode, key-purpose slots included: verify_efuses
\* reports it NOT_FOUND and failed, and no check of verify_virgin or
\* verify_post_provision passes on an eFuse the summary has no text for.
C15_FailClosedOnMissing ==
    /\ VerifyEfusesReturned =>
          \A i \in DOMAIN SECURITY_EFUSES :
              SECURITY_EFUSES[i].efuse \notin DOMAIN efuse_summary =>
                  /\ verification.checks[i].actual = NOT_FOUND
                  /\ ~verification.checks[i].passed
    /\ ChecksDone =>
          \A i \in DOMAIN result.checks :
              LET subject == result.checks[i].subject IN
              subject \in int_fields \cup str_fields /\ full_output[subject] = "" =>
                  ~result.checks[i].passed

\* C16: for the empty attribute map and any mode, verify_efuses returns a
\* report that did not pass, with one check per rule, each NOT_FOUND.
C16_EmptyMapFails ==
    VerifyEfusesDone /\ DOMAIN efuse_summary = {} =>
        /\ VerifyEfusesReturned
        /\ ~verification.passed
        /\ DOMAIN verification.checks = DOMAIN SECURITY_EFUSES
        /\ \A i \in DOMAIN verification.checks : verification.checks[i].actual = NOT_FOUND

\* C16 witness: verify_efuses has run on the empty map in locked mode.
C16_Witness ==
    /\ VerifyEfusesDone
    /\ DOMAIN efuse_summary = {}
    /\ expect_mode = "locked"

\* The rules whose virgin and locked expectations are both literals.
LiteralRules ==
    {i \in DOMAIN SECURITY_EFUSES :
        ~callable(SECURITY_EFUSES[i].virgin) /\ ~callable(SECURITY_EFUSES[i].locked)}

\* C17 as claimed: the virgin and the locked literal of every rule of the
\* table verify_efuses works from differ.
C17_LiteralsDiffer ==
    VerifyEfusesDone =>
        \A i \in LiteralRules :
            ExpectedOf(SECURITY_EFUSES[i], "virgin") # ExpectedOf(SECURITY_EFUSES[i], "locked")

\* C17 as amended: the virgin and the locked literal of every rule differ,
\* except for JTAG_SEL_ENABLE, which is expected 0 in both modes.
C17_LiteralsDifferButJtagSel ==
    VerifyEfusesDone =>
        \A i \in LiteralRules :
            LET virgin == ExpectedOf(SECURITY_EFUSES[i], "virgin")
                locked == ExpectedOf(SECURITY_EFUSES[i], "locked")
            IN IF SECURITY_EFUSES[i].efuse = "JTAG_SEL_ENABLE"
               THEN virgin = JInt(0) /\ locked = JInt(0)
               ELSE virgin # locked

\* C17 witness: a chip with every eFuse at its virgin value was verified in
\* locked mode, and of the rules with two literals only JTAG_SEL_ENABLE
\* passed.
C17_Witness ==
    /\ VerifyEfusesReturned
    /\ expect_mode = "locked"
    /\ efuse_summary = VirginEfuses
    /\ \A i \in LiteralRules :
          verification.checks[i].passed <=> SECURITY_EFUSES[i].efuse = "JTAG_SEL_ENABLE"

\* A present value of unexpected type: a string, or a dict without "value".
UnexpectedType(v) == v.t = "str" \/ (IsDict(v) /\ "value" \notin DOMAIN v.f)

\* C18: verify_efuses raises for no attribute map and mode, and a present
\* value of unexpected type is a failing check of the report.
C18_NeverRaisesForData ==
    VerifyEfusesDone /\ expect_mode \in {"virgin", "locked"} =>
        /\ VerifyEfusesReturned
        /\ \A i \in DOMAIN SECURITY_EFUSES :
              LET n == SECURITY_EFUSES[i].efuse IN
              n \in DOMAIN efuse_summary /\ UnexpectedType(efuse_summary[n]) =>
                  ~verification.checks[i].passed

\* C19: a call of verify_efuses with a mode other than virgin or locked
\* raises an error and returns no report.
C19_UnknownModeRaises ==
    VerifyEfusesDone /\ expect_mode \notin {"virgin", "locked"} =>
        verification.t = "raised"

\* The key-purpose slots whose text in the summary is a secure-boot digest.
DigestSlots == {i \in KeySlots : full_output[KeyPurposeName(i)] = "SECURE_BOOT_DIGEST0"}

\* Every eFuse verify_post_provision checks, the key slots aside, is read
\* with its hardened value, and slot 0 holds a flash-encryption key.
HardenedValuesMatch ==
    /\ \A i \in DOMAIN PostProvisionIntChecks :
          efuse[PostProvisionIntChecks[i][2]] = JInt(PostProvisionIntChecks[i][3])
    /\ efuse["ENABLE_SECURITY_DOWNLOAD"] = JInt(1)
    /\ efuse["KEY_PURPOSE_0"] = JStr("XTS_AES_128_KEY")

\* The failing aggregate check on the key purposes is in the report.
HasFailedDigestCheck ==
    \E i \in DOMAIN result.checks :
        /\ result.checks[i].name = "Secure Boot Digest in key blocks"
        /\ ~result.checks[i].passed

\* The key-purpose slots whose value in the attribute map given to
\* verify_efuses is a secure-boot digest.
SummaryDigestSlots ==
    {i \in KeySlots :
        /\ KeyPurposeName(i) \in DOMAIN efuse_summary
        /\ efuse_summary[KeyPurposeName(i)] = JStr("SECURE_BOOT_DIGEST0")}

\* C20: in locked (post-provision) mode of either tool, with no slot
\* carrying SECURE_BOOT_DIGEST the report holds a dedicated failing aggregate
\* check and does not pass, even when every eFuse has its hardened value;
\* with a slot carrying it and the other hardened values matching, the
\* report passes.
C20_SecureBootKeyRequired ==
    /\ VerifyEfusesReturned /\ expect_mode = "locked" /\ SummaryDigestSlots = {} =>
          /\ ~verification.passed
          /\ \E i \in DOMAIN verification.checks :
                /\ verification.checks[i].efuse \notin EfuseNames
                /\ ~verification.checks[i].passed
    /\ ChecksDone /\ post_provision =>
          /\ DigestSlots = {} => HasFailedDigestCheck /\ ~result.overall_pass
          /\ DigestSlots # {} /\ HardenedValuesMatch => result.overall_pass

\* The value of an eFuse as verify_efuses compares it: the "value" of a dict.
ActualOf(raw) == IF IsDict(raw) THEN Get(raw, "value", raw) ELSE raw

\* The disabled value of a security eFuse: the number 0.
IsDisabled(v) == IsNumber(v) /\ Num(v) = 0

\* The purposes of a key slot nothing was assigned to.
UnassignedPurposes == {"", "USER", "USER/EMPTY"}

C22_OverallPassIsConjunction ==
    /\ VerifyEfusesReturned =>
          (verification.passed <=>
              \A i \in DOMAIN verification.checks : verification.checks[i].passed)
    /\ ChecksDone =>
          (result.overall_pass <=> \A i \in DOMAIN result.checks : result.checks[i].passed)

\* C22 witness: verify_efuses returned a report that did not pass in which
\* one check alone failed, and not the last one.
C22_Witness ==
    /\ VerifyEfusesReturned
    /\ ~verification.passed
    /\ Cardinality({i \in DOMAIN verification.checks : ~verification.checks[i].passed}) = 1
    /\ verification.checks[Len(verification.checks)].passed

\* The attribute map with no eFuse but the one named.
OwnAttribute(efuse_data, name) == [n \in DOMAIN efuse_data \cap {name} |-> efuse_data[n]]

\* C23: for every attribute map and mode verify_efuses returns a report with
\* exactly one check per rule of the table, in table order, whatever failed
\* or was missing before, and each check is the one its own attribute and
\* the mode give.
C23_OneCheckPerRule ==
    VerifyEfusesDone =>
        /\ VerifyEfusesReturned
        /\ Len(verification.checks) = Len(SECURITY_EFUSES)
        /\ \A i \in DOMAIN SECURITY_EFUSES :
              LET spec == SECURITY_EFUSES[i] IN
              /\ verification.checks[i].efuse = spec.efuse
              /\ verification.checks[i] =
                    CheckOf(spec, OwnAttribute(efuse_summary, spec.efuse), expect_mode).check

\* A run of verify_device.py, and of scripts/verify_device.py, has ended.
ToolExited == exit_status # NotRun /\ efuse_summary # NotRun
ScriptExited == exit_status # NotRun /\ full_output # NotRun

\* C24: a run of either CLI ends with status 0, 1 or 2: 0 iff verification
\* ran and every check passed, 1 iff at least one check failed, 2 iff the
\* device data could not be obtained.
C24_ExitStatus ==
    /\ exit_status # NotRun => exit_status.code \in {0, 1, 2}
    /\ ToolExited =>
          /\ exit_status.code = 0 <=> (VerifyEfusesReturned /\ verification.passed)
          /\ exit_status.code = 1 <=>
                /\ VerifyEfusesReturned
                /\ \E i \in DOMAIN verification.checks : ~verification.checks[i].passed
          /\ exit_status.code = 2 <=> efuse_summary = NoData
    /\ ScriptExited =>
          /\ exit_status.code = 0 <=> (ChecksDone /\ result.overall_pass)
          /\ exit_status.code = 1 <=>
                /\ ChecksDone
                /\ \E i \in DOMAIN result.checks : ~result.checks[i].passed
          /\ exit_status.code = 2 <=>
                (dev = Raised("RuntimeError") \/ efuse = Raised("RuntimeError"))

\* The records of the devices other than d are as they were.
OthersKeep(map, d) ==
    \A b \in DOMAIN map : b # d => b \in DOMAIN map' /\ map'[b] = map[b]

\* C25: handling a message of device d on a topic changes no signal but
\* those of d the topic feeds, adds nothing to the discovery registries but
\* the record of the first sighting of (d, topic), and leaves every signal
\* and discovery record of every other device as it was.
C25_Frame ==
    [][\A d \in Devices, topic \in Topics : \A p \in PayloadsOf(topic) :
          Deliver(d, topic, p) =>
              /\ OthersKeep(entities_added, d)
              /\ OthersKeep(sensor_entities_added, d)
              /\ OthersKeep(devices, d)
              /\ async_discover_binary_sensors(entities_added, d, topic) = {} =>
                    entities_added' = entities_added
              /\ async_discover_sensors(sensor_entities_added, d, topic) = {} =>
                    sensor_entities_added' = sensor_entities_added
              /\ \A x \in DOMAIN binary_sensors :
                    x[1] # d \/ topic \notin BinarySubscriptions(<<x[2], x[3]>>) =>
                        x \in DOMAIN binary_sensors' /\ binary_sensors'[x] = binary_sensors[x]
              /\ \A x \in DOMAIN sensors :
                    x[1] # d \/ topic \notin SensorSubscriptions(<<x[2], x[3]>>) =>
                        x \in DOMAIN sensors' /\ sensors'[x] = sensors[x]]_vars

\* C25 witness: messages of two devices interleaved -- the online signal of
\* canary1 is on while the one of canary2, subscribed as well, is off.
C25_Witness ==
    /\ IsOn(binary_sensors, <<"canary1", "online", "">>)
    /\ Subscribed(binary_sensors, <<"canary2", "online", "">>)
    /\ ~IsOn(binary_sensors, <<"canary2", "online", "">>)

\* Every pair registered in the registry is registered after the step.
Grows(registry) ==
    \A d \in DOMAIN registry : d \in DOMAIN registry' /\ registry[d] \subseteq registry'[d]

\* C26: the discovery registries only grow -- no step removes a device or a
\* key of a device from entities_added of either platform.
C26_RegistryOnlyGrows ==
    [][Grows(entities_added) /\ Grows(sensor_entities_added)]_vars

\* C26 witness: three messages were delivered and both devices are
\* registered, canary1 under two keys.
C26_Witness ==
    /\ clock = 3
    /\ DOMAIN entities_added = Devices
    /\ {"online", "tamper"} \subseteq entities_added["canary1"]
    /\ entities_added["canary2"] # {}

\* The health message handled last is a dict whose battery and memory_free
\* are numbers where it has them.
NumericHealth ==
    /\ health_msgs > 0
    /\ IsDict(health_payload)
    /\ IsNumber(Get(health_payload, "battery", JInt(100)))
    /\ IsNumber(Get(health_payload, "memory_free", JInt(0)))

\* C29: after a health message the status is critical iff battery < 10 or
\* memory_free < 1024, warning iff it is not critical and battery < 25, and
\* healthy otherwise, an absent battery counting as 100 and an absent
\* memory_free as 0.
C29_HealthClassification ==
    NumericHealth =>
        LET battery == Num(Get(health_payload, "battery", JInt(100)))
            memory_free == Num(Get(health_payload, "memory_free", JInt(0)))
            critical == battery < 10 \/ memory_free < 1024
            warning == ~critical /\ battery < 25
            status == health_sensor.native_value
        IN /\ status = JStr("critical") <=> critical
           /\ status = JStr("warning") <=> warning
           /\ status = JStr("healthy") <=> ~critical /\ ~warning

\* C29 witness: the message handled last has battery 10 and memory_free
\* 1024, the boundaries of critical, and the status is warning.
C29_Witness ==
    /\ NumericHealth
    /\ Get(health_payload, "battery", JNull) = JInt(10)
    /\ Get(health_payload, "memory_free", JNull) = JInt(1024)
    /\ health_sensor.native_value = JStr("warning")

\* C27: whenever a .bin modification event arrives outside the debounce
\* window and a firmware is found, that firmware is deployed, a rebuild at
\* the path deployed before included; and a deployment that failed leaves
\* last_deployed as it was.
C27_DeploysEveryBuild ==
    ota_last # NotRun =>
        /\ EndsWithBin(ota_last.src_path) /\ ~ota_last.debounced /\ ota_last.firmware # None =>
              ota_last.deployed
        /\ ota_last.deployed /\ ~ota_last.ok => last_deployed = ota_last.before

\* No two devices of the list share a MAC, compared case-insensitively.
UniqueMacs(device_list) ==
    \A i, j \in DOMAIN device_list : Lower(device_list[i].mac) = Lower(device_list[j].mac) => i = j

\* C28: from a manifest with unique MACs, add_device, remove_device and
\* import_manifest(merge=True) each leave a manifest with unique MACs;
\* add_device on a MAC that exists updates that record and keeps the device
\* count; remove_device deletes exactly the one matching record.
C28_MacsStayUnique ==
    [][UniqueMacs(manifest) =>
          /\ \A mac \in Macs, location \in Locations :
                AddDevice(mac, location) =>
                   /\ UniqueMacs(manifest')
                   /\ FirstWithMac(manifest, mac) # 0 =>
                         /\ Len(manifest') = Len(manifest)
                         /\ \A i \in DOMAIN manifest :
                               Lower(manifest[i].mac) # Lower(mac) => manifest'[i] = manifest[i]
          /\ \A mac \in Macs :
                RemoveDevice(mac) =>
                   /\ UniqueMacs(manifest')
                   /\ FirstWithMac(manifest, mac) # 0 =>
                         /\ Len(manifest') = Len(manifest) - 1
                         /\ \A i \in DOMAIN manifest' : Lower(manifest'[i].mac) # Lower(mac)
                         /\ \A i \in DOMAIN manifest :
                               Lower(manifest[i].mac) # Lower(mac) =>
                                  \E k \in DOMAIN manifest' : manifest'[k] = manifest[i]
          /\ \A imported \in Imports :
                ImportManifest(imported, TRUE) => UniqueMacs(manifest')
    ]_vars

\* An event has an integer start_epoch_s (to Python a bool is an integer).
HasIntegerStart(event) ==
    IsNumber(Get(Get(event, "time_bucket", EmptyDict), "start_epoch_s", JNull))

StartOf(event) == Num(Get(Get(event, "time_bucket", EmptyDict), "start_epoch_s", JNull))

\* Event e ranks above event f: both have integer starts and that of e is
\* later, or e has a non-negative integer start and f has none.
RanksAbove(e, f) ==
    \/ HasIntegerStart(e) /\ HasIntegerStart(f) /\ StartOf(e) > StartOf(f)
    \/ HasIntegerStart(e) /\ StartOf(e) >= 0 /\ ~HasIntegerStart(f)

\* Events e and f tie: the same integer start, or neither has one.
Ties(e, f) ==
    \/ HasIntegerStart(e) /\ HasIntegerStart(f) /\ StartOf(e) = StartOf(f)
    \/ ~HasIntegerStart(e) /\ ~HasIntegerStart(f)

\* C30: _select_latest_event returns None iff the payload holds no event in
\* any bucket of any batch; otherwise it returns an event of the payload
\* that no event of the payload ranks above, an event without an integer
\* start_epoch_s ranking below every event with a non-negative one, and of
\* the events that tie with it the first in batch/bucket order.
C30_LatestEvent ==
    latest_event # NotRun =>
        LET items == all_events(events_payload) IN
        /\ latest_event = JNull <=> items = <<>>
        /\ items # <<>> =>
              \E k \in DOMAIN items :
                 /\ latest_event = items[k]
                 /\ \A j \in DOMAIN items : ~RanksAbove(items[j], items[k])
                 /\ \A j \in DOMAIN items : j < k => ~Ties(items[j], items[k])

\* A payload whose first two events tie on an integer start was selected from.
C30_Witness ==
    /\ latest_event \notin {NotRun, JNull}
    /\ LET items == all_events(events_payload) IN
       /\ Len(items) >= 2
       /\ items[1] # items[2]
       /\ HasIntegerStart(items[1])
       /\ Ties(items[1], items[2])
       /\ latest_event = items[1]

====
